---- MODULE Spec2Model ----
(***************************************************************************)
(* Model of the deed-to-watchlist property matcher                         *)
(* (backend/deed_monitor/property_matcher.py) and of the DeedRecord        *)
(* helpers of backend/deed_monitor/deed_monitor.py.                        *)
(*                                                                         *)
(* Python strings are sequences of one-character strings; Python's None    *)
(* is the one-element sequence <<"None">> (no Python string is equal to    *)
(* it, because every element of a Python string is one character long).    *)
(* Python dicts are insertion-ordered: a dict is a sequence of             *)
(* <<key, value>> pairs with pairwise different keys.                      *)
(* Scores are exact rationals <<numerator, denominator>>.                  *)
(***************************************************************************)
EXTENDS Integers, Sequences, FiniteSets, TLC

\* ------------------------------------------------------------------------
\* Python values
\* ------------------------------------------------------------------------
None == <<"None">>

\* bool(x) of an Optional[str]
Truthy(s) == s # None /\ s # <<>>

\* a Python int other than 0, as a field of a record: the marker "int" and
\* the digits (no Python string starts with a three-character element)
IntValue(digits) == <<"int">> \o digits

\* isinstance(v, str) of a value that is not None
IsStr(v) == v = <<>> \/ v[1] # "int"

\* f"{v}" of a str or an int
Format(v) == IF IsStr(v) THEN v ELSE Tail(v)

Digits == {"0", "1", "2", "3", "4", "5", "6", "7", "8", "9"}

UpperChars == <<"A", "B", "C", "D", "E", "F", "G", "H", "I", "J", "K", "L", "M",
                "N", "O", "P", "Q", "R", "S", "T", "U", "V", "W", "X", "Y", "Z">>

LowerChars == <<"a", "b", "c", "d", "e", "f", "g", "h", "i", "j", "k", "l", "m",
                "n", "o", "p", "q", "r", "s", "t", "u", "v", "w", "x", "y", "z">>

\* str.isspace() for the ASCII range
WhiteChars == {" ", "\t", "\n", "\r"}

\* the class \w of the re module, ASCII range
WordChars == Digits \cup {LowerChars[i] : i \in 1..26}
                    \cup {UpperChars[i] : i \in 1..26} \cup {"_"}

LowerChar(c) ==
    IF \E i \in 1..26 : UpperChars[i] = c
    THEN LowerChars[CHOOSE i \in 1..26 : UpperChars[i] = c]
    ELSE c

\* str.lower()
Lower(s) == [i \in 1..Len(s) |-> LowerChar(s[i])]

\* s with every character of the set cs removed
RECURSIVE RemoveChars(_, _)
RemoveChars(s, cs) ==
    IF s = <<>> THEN <<>>
    ELSE IF Head(s) \in cs THEN RemoveChars(Tail(s), cs)
    ELSE <<Head(s)>> \o RemoveChars(Tail(s), cs)

\* the group of re.match(r'^(\d+)', s): the leading digits, <<>> when the
\* pattern does not match
RECURSIVE LeadingDigits(_)
LeadingDigits(s) ==
    IF s = <<>> \/ Head(s) \notin Digits THEN <<>>
    ELSE <<Head(s)>> \o LeadingDigits(Tail(s))

\* str.split(sep) for a one-character separator
RECURSIVE SplitOn(_, _)
SplitOn(s, sep) ==
    IF \A i \in 1..Len(s) : s[i] # sep THEN <<s>>
    ELSE LET p == CHOOSE i \in 1..Len(s) :
                      s[i] = sep /\ \A j \in 1..(i - 1) : s[j] # sep
         IN  <<SubSeq(s, 1, p - 1)>> \o SplitOn(SubSeq(s, p + 1, Len(s)), sep)

\* ------------------------------------------------------------------------
\* dict
\* ------------------------------------------------------------------------
DictHas(d, k) == \E i \in 1..Len(d) : d[i][1] = k

\* d[k] for a key that is present
DictAt(d, k) == d[CHOOSE i \in 1..Len(d) : d[i][1] = k][2]

\* d[k] = v : an existing key keeps its position
DictPut(d, k, v) ==
    IF DictHas(d, k)
    THEN [i \in 1..Len(d) |-> IF d[i][1] = k THEN <<k, v>> ELSE d[i]]
    ELSE Append(d, <<k, v>>)

\* ------------------------------------------------------------------------
\* identifier normalization
\* ------------------------------------------------------------------------
\* StripDashSpace without the second replace
StripDashOnly(apn) == RemoveChars(apn, {"-"})

\* apn.replace('-', '').replace(' ', '')
StripDashSpace(apn) == RemoveChars(apn, {"-", " "})

\* apn_normalized testing "is not None" instead of the truth value
apn_normalized_not_none(apn) == IF apn # None THEN RemoveChars(apn, {"-", " "}) ELSE None

\* apn_normalized removing the dashes and keeping the spaces
apn_normalized_dashes_only(apn) ==
    IF Truthy(apn) THEN RemoveChars(apn, {"-"}) ELSE None

\* DeedRecord.apn_normalized
apn_normalized(apn) == IF Truthy(apn) THEN StripDashSpace(apn) ELSE None

\* ------------------------------------------------------------------------
\* address normalization
\* ------------------------------------------------------------------------
\* the dict directionals, in its order
directionals ==
    << <<<<"n", "o", "r", "t", "h">>, <<"n">>>>,
       <<<<"s", "o", "u", "t", "h">>, <<"s">>>>,
       <<<<"e", "a", "s", "t">>, <<"e">>>>,
       <<<<"w", "e", "s", "t">>, <<"w">>>>,
       <<<<"n", "o", "r", "t", "h", "e", "a", "s", "t">>, <<"n", "e">>>>,
       <<<<"n", "o", "r", "t", "h", "w", "e", "s", "t">>, <<"n", "w">>>>,
       <<<<"s", "o", "u", "t", "h", "e", "a", "s", "t">>, <<"s", "e">>>>,
       <<<<"s", "o", "u", "t", "h", "w", "e", "s", "t">>, <<"s", "w">>>> >>

\* the dict street_types, in its order
street_types ==
    << <<<<"s", "t", "r", "e", "e", "t">>, <<"s", "t">>>>,
       <<<<"a", "v", "e", "n", "u", "e">>, <<"a", "v", "e">>>>,
       <<<<"b", "o", "u", "l", "e", "v", "a", "r", "d">>, <<"b", "l", "v", "d">>>>,
       <<<<"d", "r", "i", "v", "e">>, <<"d", "r">>>>,
       <<<<"r", "o", "a", "d">>, <<"r", "d">>>>,
       <<<<"l", "a", "n", "e">>, <<"l", "n">>>>,
       <<<<"c", "o", "u", "r", "t">>, <<"c", "t">>>>,
       <<<<"c", "i", "r", "c", "l", "e">>, <<"c", "i", "r">>>>,
       <<<<"p", "l", "a", "c", "e">>, <<"p", "l">>>>,
       <<<<"w", "a", "y">>, <<"w", "y">>>>,
       <<<<"p", "a", "r", "k", "w", "a", "y">>, <<"p", "k", "w", "y">>>>,
       <<<<"h", "i", "g", "h", "w", "a", "y">>, <<"h", "w", "y">>>> >>

\* str.strip()
RECURSIVE LStrip(_)
LStrip(s) ==
    IF s # <<>> /\ Head(s) \in WhiteChars THEN LStrip(Tail(s)) ELSE s

RECURSIVE RStrip(_)
RStrip(s) ==
    IF s # <<>> /\ s[Len(s)] \in WhiteChars
    THEN RStrip(SubSeq(s, 1, Len(s) - 1)) ELSE s

Strip(s) == RStrip(LStrip(s))

\* length of the longest prefix of s made only of word characters (w = TRUE)
\* or only of non-word characters (w = FALSE)
RECURSIVE RunLen(_, _)
RunLen(s, w) ==
    IF s = <<>> \/ (Head(s) \in WordChars) # w THEN 0
    ELSE 1 + RunLen(Tail(s), w)

\* re.sub(rf'\b{full}\b', abbrev, s) for a word full: \b holds exactly at the
\* ends of the maximal runs of word characters
RECURSIVE ReplaceWord(_, _, _)
ReplaceWord(s, full, abbrev) ==
    IF s = <<>> THEN <<>>
    ELSE LET w    == Head(s) \in WordChars
             n    == RunLen(s, w)
             run  == SubSeq(s, 1, n)
             rest == SubSeq(s, n + 1, Len(s))
         IN  (IF w /\ run = full THEN abbrev ELSE run)
                 \o ReplaceWord(rest, full, abbrev)

\* the loop "for full, abbrev in table.items(): addr = re.sub(...)"
RECURSIVE ReplaceAll(_, _)
ReplaceAll(s, table) ==
    IF table = <<>> THEN s
    ELSE ReplaceAll(ReplaceWord(s, Head(table)[1], Head(table)[2]), Tail(table))

\* length of the longest prefix of s without whitespace
RECURSIVE NonWhiteLen(_)
NonWhiteLen(s) ==
    IF s = <<>> \/ Head(s) \in WhiteChars THEN 0
    ELSE 1 + NonWhiteLen(Tail(s))

\* str.split() without argument
RECURSIVE SplitWhite(_)
SplitWhite(s) ==
    LET t == LStrip(s)
        n == NonWhiteLen(t)
    IN  IF t = <<>> THEN <<>>
        ELSE <<SubSeq(t, 1, n)>> \o SplitWhite(SubSeq(t, n + 1, Len(t)))

\* ' '.join(words)
RECURSIVE JoinSpace(_)
JoinSpace(words) ==
    IF words = <<>> THEN <<>>
    ELSE IF Len(words) = 1 THEN words[1]
    ELSE words[1] \o <<" ">> \o JoinSpace(Tail(words))

\* _normalize_address without the removal of the punctuation
_normalize_address_keep_punctuation(address) ==
    IF ~Truthy(address) THEN <<>>
    ELSE LET a1 == Strip(Lower(address))
             a3 == ReplaceAll(a1, directionals)
             a4 == ReplaceAll(a3, street_types)
         IN  JoinSpace(SplitWhite(a4))

\* PropertyMatcher._normalize_address
_normalize_address(address) ==
    IF ~Truthy(address) THEN <<>>
    ELSE LET a1 == Strip(Lower(address))
             a2 == RemoveChars(a1, {".", ",", "#"})
             a3 == ReplaceAll(a2, directionals)
             a4 == ReplaceAll(a3, street_types)
         IN  JoinSpace(SplitWhite(a4))

\* ------------------------------------------------------------------------
\* scores: exact rationals <<numerator, denominator>>, denominator > 0
\* ------------------------------------------------------------------------
RatGE(x, y) == x[1] * y[2] >= y[1] * x[2]

RatGT(x, y) == x[1] * y[2] > y[1] * x[2]

RatEq(x, y) == x[1] * y[2] = y[1] * x[2]

RatAdd(x, y) == <<x[1] * y[2] + y[1] * x[2], x[2] * y[2]>>

RatMin(x, y) == IF RatGE(x, y) THEN y ELSE x

Zero == <<0, 1>>

One == <<1, 1>>

\* a threshold of 0.75, the 0.85 less the street-number boost
min_confidence_unboosted == <<75, 100>>

\* the default min_confidence of _match_by_address, 0.85
min_confidence == <<85, 100>>

\* the street-number boost of _address_similarity, 0.1
\* a bonus of 0.05
NumberBoost_half == <<5, 100>>

NumberBoost == <<1, 10>>

\* a lot/tract match as sure as an identifier match
LotTractConfidence_certain == <<100, 100>>

\* the confidence of a lot/tract match, 0.95
LotTractConfidence == <<95, 100>>

\* ------------------------------------------------------------------------
\* difflib.SequenceMatcher(None, a, b).ratio() (no junk; the automatic junk
\* heuristic needs a second string of 200 characters or more)
\* ------------------------------------------------------------------------
\* length of the common run of a from i and b from j, inside a[..ahi], b[..bhi]
RECURSIVE CommonRun(_, _, _, _, _, _)
CommonRun(a, b, i, j, ahi, bhi) ==
    IF i > ahi \/ j > bhi \/ a[i] # b[j] THEN 0
    ELSE 1 + CommonRun(a, b, i + 1, j + 1, ahi, bhi)

\* find_longest_match(alo, ahi, blo, bhi) on the inclusive ranges alo..ahi and
\* blo..bhi: <<i, j, k>>, the longest block, the one starting earliest in a
\* and, among those, earliest in b; k = 0 when no character is shared
find_longest_match(a, b, alo, ahi, blo, bhi) ==
    LET starts == (alo..ahi) \X (blo..bhi)
        len(p) == CommonRun(a, b, p[1], p[2], ahi, bhi)
        best   == CHOOSE p \in starts :
                      \A q \in starts :
                          \/ len(p) > len(q)
                          \/ /\ len(p) = len(q)
                             /\ \/ p[1] < q[1]
                                \/ p[1] = q[1] /\ p[2] <= q[2]
    IN  <<best[1], best[2], len(best)>>

\* the sum of the sizes of get_matching_blocks() within the given ranges
RECURSIVE MatchedCount(_, _, _, _, _, _)
MatchedCount(a, b, alo, ahi, blo, bhi) ==
    IF alo > ahi \/ blo > bhi THEN 0
    ELSE LET m == find_longest_match(a, b, alo, ahi, blo, bhi)
         IN  IF m[3] = 0 THEN 0
             ELSE m[3]
                  + MatchedCount(a, b, alo, m[1] - 1, blo, m[2] - 1)
                  + MatchedCount(a, b, m[1] + m[3], ahi, m[2] + m[3], bhi)

\* ratio(): 2.0 * matches / length, 1.0 for two empty strings
ratio(a, b) ==
    IF Len(a) + Len(b) = 0 THEN One
    ELSE <<2 * MatchedCount(a, b, 1, Len(a), 1, Len(b)), Len(a) + Len(b)>>

\* PropertyMatcher._address_similarity
_address_similarity(addr1, addr2) ==
    LET base_score == ratio(addr1, addr2)
        num1 == LeadingDigits(addr1)
        num2 == LeadingDigits(addr2)
    IN  IF num1 # <<>> /\ num2 # <<>> /\ num1 = num2
        THEN RatMin(One, RatAdd(base_score, NumberBoost))
        ELSE base_score

\* ------------------------------------------------------------------------
\* the format f"{x:.1%}"
\* ------------------------------------------------------------------------
DigitChars == <<"0", "1", "2", "3", "4", "5", "6", "7", "8", "9">>

\* str(n) for n >= 0
RECURSIVE IntToStr(_)
IntToStr(n) ==
    IF n < 10 THEN <<DigitChars[n + 1]>>
    ELSE IntToStr(n \div 10) \o <<DigitChars[(n % 10) + 1]>>

\* x in tenths of a percent, rounded half to even
Permille(x) ==
    LET q == (1000 * x[1]) \div x[2]
        r == (1000 * x[1]) % x[2]
    IN  IF 2 * r > x[2] \/ (2 * r = x[2] /\ q % 2 = 1) THEN q + 1 ELSE q

FormatPercent1(x) ==
    IntToStr(Permille(x) \div 10) \o <<".">>
        \o <<DigitChars[(Permille(x) % 10) + 1]>> \o <<"%">>

\* ------------------------------------------------------------------------
\* MatchResult
\* ------------------------------------------------------------------------
\* a diagnostic note: the fixed text of the f-string and its interpolated
\* values, in order
Note(text, args) == [text |-> text, args |-> args]

\* the watchlist_entry of a MatchResult that has none
NoEntry == [id |-> "None", apn |-> None, apn_normalized |-> None,
            address |-> None, city |-> None]

MatchResult(matched, watchlist_entry, match_method, confidence, matched_apn, notes) ==
    [matched |-> matched, watchlist_entry |-> watchlist_entry,
     match_method |-> match_method, confidence |-> confidence,
     matched_apn |-> matched_apn, notes |-> notes]

\* MatchResult(matched=False, notes=...): the dataclass defaults for the rest
Unmatched(notes) == MatchResult(FALSE, NoEntry, "", Zero, None, notes)

\* ------------------------------------------------------------------------
\* the indexes
\* ------------------------------------------------------------------------
\* f"{lot}|{tract}|{city_lower}"
LotTractKey(lot, tract, city_lower) ==
    lot \o <<"|">> \o tract \o <<"|">> \o city_lower

\* AddressKey without the city
AddressKey_number_only(street_num, city_lower) == street_num \o <<"|">>

\* f"{street_num}|{city_lower}"
AddressKey(street_num, city_lower) == street_num \o <<"|">> \o city_lower

\* CityLower keeping the city as written
CityLower_as_written(city) == IF Truthy(city) THEN city ELSE <<>>

\* city.lower() if city else ''
CityLower(city) == IF Truthy(city) THEN Lower(city) ELSE <<>>

\* PropertyMatcher._build_address_index over the items of the watchlist, in
\* their order, starting from the index idx
RECURSIVE BuildAddressIndex(_, _)
BuildAddressIndex(items, idx) ==
    IF items = <<>> THEN idx
    ELSE LET entry == Head(items)[2]
             normalized_addr == _normalize_address(entry.address)
             street_num == LeadingDigits(normalized_addr)
             key == AddressKey(street_num, CityLower(entry.city))
             cand == [apn_normalized |-> Head(items)[1],
                      address |-> entry.address,
                      normalized_address |-> normalized_addr,
                      city |-> entry.city,
                      entry |-> entry]
             old == IF DictHas(idx, key) THEN DictAt(idx, key) ELSE <<>>
         IN  IF ~Truthy(entry.address) \/ street_num = <<>>
             THEN BuildAddressIndex(Tail(items), idx)
             ELSE BuildAddressIndex(Tail(items),
                                    DictPut(idx, key, Append(old, cand)))

_build_address_index(watchlist) == BuildAddressIndex(watchlist, <<>>)

\* the row loop of PropertyMatcher._load_lot_tract_mapping over the rows of
\* the reference table, in the order the table returns them
RECURSIVE LoadRows(_, _)
LoadRows(rows, cache) ==
    IF rows = <<>> THEN cache
    ELSE LET row == Head(rows)
             key == LotTractKey(row.lot_number, row.tract_number, Lower(row.city))
         IN  IF Truthy(row.lot_number) /\ Truthy(row.tract_number) /\ Truthy(row.apn)
             THEN LoadRows(Tail(rows), DictPut(cache, key, row.apn))
             ELSE LoadRows(Tail(rows), cache)

\* the rows the loop reaches: row.get('city', '').lower() raises
\* AttributeError at the first row whose city is null, and the except clause
\* of _load_lot_tract_mapping ends the loading there
ReachedRows(rows) ==
    IF \E i \in 1..Len(rows) : rows[i].city = None
    THEN SubSeq(rows, 1, (CHOOSE i \in 1..Len(rows) :
                             /\ rows[i].city = None
                             /\ \A j \in 1..(i - 1) : rows[j].city # None) - 1)
    ELSE rows

\* what the except clause of _load_lot_tract_mapping caught while reading
\* the table: db_up is whether the queries are answered
LoadError(table, db_up) ==
    IF ~db_up THEN "unreachable"
    ELSE IF ReachedRows(table) # table THEN "row"
    ELSE ""

\* PropertyMatcher._load_lot_tract_mapping: the lot_tract_cache it leaves;
\* a failed query leaves it empty, a failing row leaves the rows before it
_load_lot_tract_mapping(table, db_up) ==
    IF db_up THEN LoadRows(ReachedRows(table), <<>>) ELSE <<>>

\* ------------------------------------------------------------------------
\* the three strategies
\* ------------------------------------------------------------------------
\* _match_by_apn looking the identifier up as written
_match_by_apn_raw(watchlist, apn) ==
    IF DictHas(watchlist, apn)
    THEN MatchResult(TRUE, DictAt(watchlist, apn), "apn", One,
                     DictAt(watchlist, apn).apn, Note("Direct APN match", <<>>))
    ELSE Unmatched(Note("", <<>>))

\* PropertyMatcher._match_by_apn
_match_by_apn(watchlist, apn) ==
    LET apn_norm == StripDashSpace(apn)
    IN  IF DictHas(watchlist, apn_norm)
        THEN MatchResult(TRUE, DictAt(watchlist, apn_norm), "apn", One,
                         DictAt(watchlist, apn_norm).apn,
                         Note("Direct APN match", <<>>))
        ELSE Unmatched(Note("", <<>>))

\* the exact lookup of _match_by_lot_tract: lot_tract_cache.get(key)
ExactLookup(cache, lot_number, tract_number, city) ==
    LET key == LotTractKey(Format(lot_number), Format(tract_number),
                           CityLower(city))
    IN  IF DictHas(cache, key) THEN DictAt(cache, key) ELSE None

\* the loop of _match_by_lot_tract keeping the last key that fits instead of
\* breaking at the first
ScanLookup_last(cache, lot_number, tract_number) ==
    LET hit(i) == LET parts == SplitOn(cache[i][1], "|")
                  IN  Len(parts) >= 2 /\ parts[1] = lot_number
                                      /\ parts[2] = tract_number
    IN  IF \E i \in 1..Len(cache) : hit(i)
        THEN cache[CHOOSE i \in 1..Len(cache) :
                       hit(i) /\ \A j \in (i + 1)..Len(cache) : ~hit(j)][2]
        ELSE None

\* the loop of _match_by_lot_tract over lot_tract_cache.items(): the value of
\* the first key whose first two '|' parts are the lot and the tract
ScanLookup(cache, lot_number, tract_number) ==
    LET hit(i) == LET parts == SplitOn(cache[i][1], "|")
                  IN  Len(parts) >= 2 /\ parts[1] = lot_number
                                      /\ parts[2] = tract_number
    IN  IF \E i \in 1..Len(cache) : hit(i)
        THEN cache[CHOOSE i \in 1..Len(cache) :
                       hit(i) /\ \A j \in 1..(i - 1) : ~hit(j)][2]
        ELSE None

\* ResolveLotTract running the scan before the exact lookup
ResolveLotTract_scan_first(cache, lot_number, tract_number, city) ==
    LET apn == ScanLookup(cache, lot_number, tract_number)
    IN  IF Truthy(apn) THEN apn
        ELSE ExactLookup(cache, lot_number, tract_number, city)

\* the identifier _match_by_lot_tract resolves: the exact key first, the
\* scan when the exact lookup gave nothing
ResolveLotTract(cache, lot_number, tract_number, city) ==
    LET apn == ExactLookup(cache, lot_number, tract_number, city)
    IN  IF Truthy(apn) THEN apn
        ELSE ScanLookup(cache, lot_number, tract_number)

\* PropertyMatcher._match_by_lot_tract
_match_by_lot_tract(watchlist, cache, lot_number, tract_number, city) ==
    LET apn == ResolveLotTract(cache, lot_number, tract_number, city)
        apn_norm == StripDashSpace(apn)
    IN  IF cache = <<>>
        THEN Unmatched(Note("Lot/Tract lookup not available", <<>>))
        ELSE IF ~Truthy(apn)
        THEN Unmatched(Note("No APN found for Lot {}, Tract {}",
                            <<lot_number, tract_number>>))
        ELSE IF DictHas(watchlist, apn_norm)
        THEN MatchResult(TRUE, DictAt(watchlist, apn_norm), "lot_tract",
                         LotTractConfidence, apn,
                         Note("Matched via Lot {}, Tract {}",
                              <<lot_number, tract_number>>))
        ELSE Unmatched(Note("APN {} from Lot/Tract not in watchlist", <<apn>>))

\* the candidate loop with "score >= best_score": the last of the best
\* candidates is kept
RECURSIVE BestCandidate_last(_, _, _)
BestCandidate_last(normalized_addr, cands, best) ==
    IF cands = <<>> THEN best
    ELSE LET score == _address_similarity(normalized_addr,
                                          Head(cands).normalized_address)
         IN  IF RatGE(score, best[2])
             THEN BestCandidate_last(normalized_addr, Tail(cands),
                                     <<<<Head(cands)>>, score>>)
             ELSE BestCandidate_last(normalized_addr, Tail(cands), best)

\* the candidate loop of _match_by_address: <<best_match, best_score>> after
\* the candidates cands, starting from <<best_match, best_score>> = best
RECURSIVE BestCandidate(_, _, _)
BestCandidate(normalized_addr, cands, best) ==
    IF cands = <<>> THEN best
    ELSE LET score == _address_similarity(normalized_addr,
                                          Head(cands).normalized_address)
         IN  IF RatGT(score, best[2])
             THEN BestCandidate(normalized_addr, Tail(cands), <<<<Head(cands)>>, score>>)
             ELSE BestCandidate(normalized_addr, Tail(cands), best)

\* PropertyMatcher._match_by_address; best_match is <<>> for None and
\* <<candidate>> otherwise
_match_by_address(index, address, city) ==
    LET normalized_addr == _normalize_address(address)
        street_num == LeadingDigits(normalized_addr)
        key == AddressKey(street_num, CityLower(city))
        candidates == IF DictHas(index, key) THEN DictAt(index, key) ELSE <<>>
        best == BestCandidate(normalized_addr, candidates, <<<<>>, Zero>>)
        best_match == best[1]
        best_score == best[2]
    IN  IF street_num = <<>>
        THEN Unmatched(Note("Could not extract street number from address", <<>>))
        ELSE IF candidates = <<>>
        THEN Unmatched(Note("No addresses in watchlist match {} in {}",
                            <<street_num, city>>))
        ELSE IF best_match # <<>> /\ RatGE(best_score, min_confidence)
        THEN MatchResult(TRUE, best_match[1].entry, "address", best_score,
                         best_match[1].entry.apn,
                         Note("Address match: '{}' ~ '{}' ({})",
                              <<address, best_match[1].address,
                                FormatPercent1(best_score)>>))
        ELSE Unmatched(Note("Best address match score {} below threshold {}",
                            <<FormatPercent1(best_score),
                              FormatPercent1(min_confidence)>>))

\* ------------------------------------------------------------------------
\* bounds and input pools
\* ------------------------------------------------------------------------
\* most rows of the watchlist
MaxWatch == 2

\* most add_lot_tract_mapping calls
MaxAdds == 1

Str_1d2 == <<"1", "-", "2">>
Str_1p2 == <<"1", ".", "2">>
Str_1s2 == <<"1", " ", "2">>
Str_3 == <<"3">>
Str_4 == <<"4">>
Str_9 == <<"9">>
Str_5 == <<"5">>
Str_6 == <<"6">>
Str_10 == <<"1", "0">>
Str_Orange == <<"O", "r", "a", "n", "g", "e">>
Str_ORANGE == <<"O", "R", "A", "N", "G", "E">>
Str_ANAHEIM == <<"A", "N", "A", "H", "E", "I", "M">>
Str_Anaheim == <<"A", "n", "a", "h", "e", "i", "m">>
Str_1_ab == <<"1", " ", "a", "b">>
Str_1_Ab == <<"1", " ", "A", "b">>
Str_1_AB == <<"1", " ", "A", "B">>
Str_1_ac == <<"1", " ", "a", "c">>
Str_1_axy == <<"1", " ", "a", "x", "y">>
Str_1_xy == <<"1", " ", "x", "y">>
Str_ab == <<"a", "b">>

\* rows of the table apn_watchlist; apn_normalized is None in a row that
\* has no pre-normalized identifier
WatchRows ==
    { [id |-> "wA", apn |-> Str_1d2, apn_normalized |-> None,
       address |-> Str_1_ab, city |-> Str_Orange],
      [id |-> "wB", apn |-> Str_3, apn_normalized |-> Str_3,
       address |-> Str_1_ac, city |-> Str_Orange],
      [id |-> "wC", apn |-> Str_4, apn_normalized |-> None,
       address |-> Str_1_AB, city |-> Str_Anaheim] }

\* rows of the table lot_tract_apn_lookup
RowOrange == [lot_number |-> Str_5, tract_number |-> Str_10,
              city |-> Str_Orange, apn |-> Str_1s2]

RowAnaheim == [lot_number |-> Str_5, tract_number |-> Str_10,
               city |-> Str_Anaheim, apn |-> Str_3]

RowOtherLot == [lot_number |-> Str_6, tract_number |-> Str_10,
                city |-> Str_Anaheim, apn |-> Str_9]

\* the contents of the table when the matcher is constructed
InitialTables == {<<>>, <<RowOrange>>, <<RowAnaheim>>, <<RowOtherLot>>}

\* the arguments of add_lot_tract_mapping
AddedRows == {RowOrange, RowAnaheim}

\* an Optional[float]: <<>> is None, <<n>> the number n
NoAmount == <<>>

\* a transfer tax that arrived as a str, as the JSON sources can deliver it:
\* the marker "str" and the characters
StrAmount(chars) == <<"str">> \o chars

\* isinstance(dtt, str) of an amount that is not None
IsStrAmount(dtt) == Len(dtt) > 1

\* the records handed to match; an attribute the record lacks reads as None
\* (getattr(deed_record, name, None)); match reads the transfer tax only
\* of a record without address
Records ==
    {r \in [apn : {None, <<>>, Str_1d2, Str_1p2},
            lot_number : {None, Str_5},
            tract_number : {None, Str_10},
            city : {None, Str_Orange, Str_ANAHEIM},
            address : {None, Str_1_Ab, Str_1_axy, Str_ab},
            documentary_transfer_tax : {NoAmount, <<5>>}] :
        Truthy(r.address) => r.documentary_transfer_tax = NoAmount}

\* the sequences of length at most n of pairwise different elements of S
RECURSIVE SeqsUpTo(_, _)
SeqsUpTo(S, n) ==
    IF n = 0 THEN {<<>>}
    ELSE LET shorter == SeqsUpTo(S, n - 1)
         IN  shorter \cup
             {Append(s, x) : <<s, x>> \in
                 {p \in shorter \X S :
                      Len(p[1]) = n - 1 /\ \A i \in 1..Len(p[1]) : p[1][i] # p[2]}}

\* the row loop of DeedMonitor._load_watchlist_cache, over the rows of all
\* pages: row.get('apn_normalized') or row['apn'].replace(...)
RECURSIVE LoadWatchlist(_, _)
LoadWatchlist(rows, cache) ==
    IF rows = <<>> THEN cache
    ELSE LET row == Head(rows)
             normalized == IF Truthy(row.apn_normalized) THEN row.apn_normalized
                           ELSE StripDashSpace(row.apn)
         IN  LoadWatchlist(Tail(rows), DictPut(cache, normalized, row))

\* ------------------------------------------------------------------------
\* state
\* ------------------------------------------------------------------------
VARIABLES
    watchlist_cache,   \* PropertyMatcher.watchlist_cache
    lot_tract_cache,   \* PropertyMatcher.lot_tract_cache
    address_index,     \* PropertyMatcher._address_index
    lookup_table,      \* the external table lot_tract_apn_lookup
    adds,              \* add_lot_tract_mapping calls made
    pc,                \* where the match call stands
    rec,               \* the deed_record of the match call
    attempted,         \* the strategies this call ran, with their results
    result,            \* the MatchResult the call returned
    apn_in,            \* DeedRecord.apn of a record read on its own
    apn_out,           \* what DeedRecord.apn_normalized gave for it
    load_error,        \* what _load_lot_tract_mapping caught, "" for nothing
    constructed_from,  \* the watchlist dict as it was when __init__ ran
    lot_tract_iter,    \* the iterator of the scan of _match_by_lot_tract
    dtt_rate,          \* the dtt_rate given to calculate_sale_price
    sale_price,        \* what calculate_sale_price returned
    map_at_call,       \* lot_tract_cache as it was when match was called
    apn_watchlist,     \* the rows of the table apn_watchlist, in the order
                       \* the database delivers them
    deed_recordings,   \* the rows of the table deed_recordings; the id of a
                       \* row is its position
    sale_alerts,       \* the rows of the table sale_alerts
    last_sale,         \* last_sale_doc_number of the rows of apn_watchlist
                       \* that have one, by id
    monitor_runs,      \* the status of the rows of the table monitor_runs
    notifications,     \* the alert_data given to _send_notification
    run_id,            \* run_id of DeedMonitor.run, 0 for None
    dry_run,           \* dry_run of DeedMonitor.run
    stats,             \* stats of DeedMonitor.run
    records            \* the fetched records run has not processed yet

vars == <<watchlist_cache, lot_tract_cache, address_index, lookup_table, adds,
          pc, rec, attempted, result, apn_in, apn_out, load_error,
          constructed_from, lot_tract_iter, dtt_rate, sale_price, map_at_call,
          apn_watchlist, deed_recordings, sale_alerts, last_sale, monitor_runs,
          notifications, run_id, dry_run, stats, records>>

\* the state of DeedMonitor and its database, which PropertyMatcher and
\* DeedRecord never write
monitor == <<apn_watchlist, deed_recordings, sale_alerts, last_sale,
             monitor_runs, notifications, run_id, dry_run, stats, records>>

\* stats as DeedMonitor.run initializes it
NoStats == [records_fetched |-> 0, records_matched |-> 0,
            alerts_created |-> 0, errors |-> <<>>]

\* the tables and the run of a DeedMonitor before any run
NoRun ==
    /\ deed_recordings = <<>>
    /\ sale_alerts = <<>>
    /\ last_sale = <<>>
    /\ monitor_runs = <<>>
    /\ notifications = <<>>
    /\ run_id = 0
    /\ dry_run = FALSE
    /\ stats = NoStats
    /\ records = <<>>

\* no DeedMonitor: the watchlist dict is the caller's
NoMonitor == apn_watchlist = <<>> /\ NoRun

\* what match and add_lot_tract_mapping never write
matcher == <<watchlist_cache, address_index, apn_in, apn_out, load_error,
             constructed_from, dtt_rate, sale_price, monitor>>

\* apn_out before the property is read
Unread == <<"Unread">>

NoRecord == [apn |-> None, lot_number |-> None, tract_number |-> None,
             city |-> None, address |-> None,
             documentary_transfer_tax |-> NoAmount]

NoResult == Unmatched(Note("", <<>>))

\* lot_tract_iter while no scan is running
NoIter == <<>>

\* the default dtt_rate, 1.10
DefaultRate == <<110, 100>>

\* sale_price before calculate_sale_price is called
Uncalled == <<"not", "called">>

\* PropertyMatcher.__init__ on a loaded watchlist and the reference table
Init ==
    /\ \E rows \in SeqsUpTo(WatchRows, MaxWatch) :
           watchlist_cache = LoadWatchlist(rows, <<>>)
    /\ lookup_table \in InitialTables
    /\ lot_tract_cache = _load_lot_tract_mapping(lookup_table, TRUE)
    /\ address_index = _build_address_index(watchlist_cache)
    /\ adds = 0
    /\ pc = "idle"
    /\ rec = NoRecord
    /\ attempted = <<>>
    /\ result = NoResult
    /\ apn_in = None
    /\ apn_out = Unread
    /\ load_error = ""
    /\ constructed_from = watchlist_cache
    /\ lot_tract_iter = NoIter
    /\ dtt_rate = DefaultRate
    /\ sale_price = Uncalled
    /\ map_at_call = <<>>
    /\ NoMonitor

\* ------------------------------------------------------------------------
\* PropertyMatcher.match, one step per strategy
\* ------------------------------------------------------------------------
\* match(deed_record) is called
Call(r) ==
    /\ pc = "idle"
    /\ pc' = "apn"
    /\ rec' = r
    /\ attempted' = <<>>
    /\ result' = NoResult
    /\ map_at_call' = lot_tract_cache
    /\ UNCHANGED <<matcher, lot_tract_iter, lot_tract_cache, lookup_table, adds>>

\* Ran without the early return
Ran_no_return(strategy, res, next) ==
    /\ attempted' = Append(attempted, <<strategy, res>>)
    /\ pc' = next
    /\ result' = IF res.matched THEN res ELSE result

\* a strategy ran and gave res: return it when it matched, else go on to next
Ran(strategy, res, next) ==
    /\ attempted' = Append(attempted, <<strategy, res>>)
    /\ IF res.matched
       THEN pc' = "done" /\ result' = res
       ELSE pc' = next /\ result' = result

\* a skipped strategy ending the call with "No match found"
Skipped_return(next) ==
    /\ attempted' = attempted
    /\ pc' = "done"
    /\ result' = Unmatched(Note("No matching strategy succeeded", <<>>))

\* a strategy was skipped
Skipped(next) ==
    /\ attempted' = attempted
    /\ pc' = next
    /\ result' = result

\* an exception leaves match: nothing is returned
Raised ==
    /\ attempted' = attempted
    /\ pc' = "raised"
    /\ result' = result

\* Strategy 1: Direct APN match; apn.replace of an identifier that is not a
\* str raises AttributeError
TryApn ==
    /\ pc = "apn"
    /\ IF ~Truthy(rec.apn) THEN Skipped("lot_tract")
       ELSE IF ~IsStr(rec.apn) THEN Raised
       ELSE Ran("apn", _match_by_apn(watchlist_cache, rec.apn), "lot_tract")
    /\ UNCHANGED <<matcher, lot_tract_iter, map_at_call, lot_tract_cache,
                   lookup_table, adds, rec>>

\* TryLotTract with "or" for "and" in the test of the two numbers
TryLotTract_either ==
    /\ pc = "lot_tract"
    /\ IF ~(Truthy(rec.lot_number) \/ Truthy(rec.tract_number))
       THEN Skipped("address")
       ELSE IF lot_tract_cache # <<>> /\ Truthy(rec.city) /\ ~IsStr(rec.city)
       THEN Raised
       ELSE Ran("lot_tract",
                _match_by_lot_tract(watchlist_cache, lot_tract_cache,
                                    rec.lot_number, rec.tract_number, rec.city),
                "address")
    /\ UNCHANGED <<matcher, lot_tract_iter, map_at_call, lot_tract_cache,
                   lookup_table, adds, rec>>

\* TryLotTract storing the identifier it resolved under the exact key of the
\* query, so that the next call needs no scan
TryLotTract_memo ==
    /\ pc = "lot_tract"
    /\ IF ~(Truthy(rec.lot_number) /\ Truthy(rec.tract_number))
       THEN Skipped("address") /\ UNCHANGED lot_tract_cache
       ELSE IF lot_tract_cache # <<>> /\ Truthy(rec.city) /\ ~IsStr(rec.city)
       THEN Raised /\ UNCHANGED lot_tract_cache
       ELSE /\ Ran("lot_tract",
                   _match_by_lot_tract(watchlist_cache, lot_tract_cache,
                                       rec.lot_number, rec.tract_number,
                                       rec.city),
                   "address")
            /\ LET apn == ResolveLotTract(lot_tract_cache, rec.lot_number,
                                          rec.tract_number, rec.city)
               IN  lot_tract_cache' =
                       IF Truthy(apn)
                       THEN DictPut(lot_tract_cache,
                                    LotTractKey(rec.lot_number, rec.tract_number,
                                                CityLower(rec.city)),
                                    apn)
                       ELSE lot_tract_cache
    /\ UNCHANGED <<matcher, lot_tract_iter, map_at_call, lookup_table, adds, rec>>

\* Strategy 2: Lot/Tract to APN lookup; with a table that is not empty,
\* city.lower() of a city that is not a str raises AttributeError
TryLotTract ==
    /\ pc = "lot_tract"
    /\ IF ~(Truthy(rec.lot_number) /\ Truthy(rec.tract_number))
       THEN Skipped("address")
       ELSE IF lot_tract_cache # <<>> /\ Truthy(rec.city) /\ ~IsStr(rec.city)
       THEN Raised
       ELSE Ran("lot_tract",
                _match_by_lot_tract(watchlist_cache, lot_tract_cache,
                                    rec.lot_number, rec.tract_number, rec.city),
                "address")
    /\ UNCHANGED <<matcher, lot_tract_iter, map_at_call, lot_tract_cache,
                   lookup_table, adds, rec>>

\* the MatchResult of "No match found"
NoMatchResult == Unmatched(Note("No matching strategy succeeded", <<>>))

\* Strategy 3: Address fuzzy matching, then "No match found"; the branch
\* "if not address and city" writes a log line for a number, and its
\* "dtt > 0" raises TypeError for a str; address.lower() and city.lower() of
\* a value that is not a str raise AttributeError
TryAddress ==
    /\ pc = "address"
    /\ IF /\ ~Truthy(rec.address) /\ Truthy(rec.city)
          /\ rec.documentary_transfer_tax # NoAmount
          /\ IsStrAmount(rec.documentary_transfer_tax)
       THEN Raised
       ELSE IF ~(Truthy(rec.address) /\ Truthy(rec.city))
       THEN /\ attempted' = attempted
            /\ pc' = "done"
            /\ result' = NoMatchResult
       ELSE IF ~IsStr(rec.address) \/ ~IsStr(rec.city)
       THEN Raised
       ELSE LET res == _match_by_address(address_index, rec.address, rec.city)
            IN  /\ attempted' = Append(attempted, <<"address", res>>)
                /\ pc' = "done"
                /\ result' = IF res.matched THEN res ELSE NoMatchResult
    /\ UNCHANGED <<matcher, lot_tract_iter, map_at_call, lot_tract_cache,
                   lookup_table, adds, rec>>

\* the caller has taken the result
Return ==
    /\ pc = "done"
    /\ pc' = "idle"
    /\ rec' = NoRecord
    /\ attempted' = <<>>
    /\ result' = NoResult
    /\ map_at_call' = <<>>
    /\ lot_tract_iter' = NoIter
    /\ UNCHANGED <<matcher, lot_tract_cache, lookup_table, adds>>

\* the exception has reached the caller of match
Propagate ==
    /\ pc = "raised"
    /\ pc' = "idle"
    /\ rec' = NoRecord
    /\ attempted' = <<>>
    /\ result' = NoResult
    /\ map_at_call' = <<>>
    /\ lot_tract_iter' = NoIter
    /\ UNCHANGED <<matcher, lot_tract_cache, lookup_table, adds>>

\* ------------------------------------------------------------------------
\* PropertyMatcher.add_lot_tract_mapping
\* ------------------------------------------------------------------------
\* upsert(row, on_conflict='lot_number,tract_number,city') on the table
Upsert(table, row) ==
    LET same(i) == /\ table[i].lot_number = row.lot_number
                   /\ table[i].tract_number = row.tract_number
                   /\ table[i].city = row.city
    IN  IF \E i \in 1..Len(table) : same(i)
        THEN [i \in 1..Len(table) |-> IF same(i) THEN row ELSE table[i]]
        ELSE Append(table, row)

\* add_lot_tract_mapping writing the table first and the map only after a
\* successful write
add_lot_tract_mapping_db_first(lot_number, tract_number, city, apn, db_ok) ==
    /\ pc = "idle"
    /\ adds < MaxAdds
    /\ adds' = adds + 1
    /\ lot_tract_cache' = IF db_ok
                          THEN DictPut(lot_tract_cache,
                                       LotTractKey(lot_number, tract_number,
                                                   Lower(city)),
                                       apn)
                          ELSE lot_tract_cache
    /\ lookup_table' = IF db_ok
                       THEN Upsert(lookup_table,
                                   [lot_number |-> lot_number,
                                    tract_number |-> tract_number,
                                    city |-> city, apn |-> apn])
                       ELSE lookup_table
    /\ UNCHANGED <<matcher, lot_tract_iter, map_at_call, pc, rec, attempted,
                   result>>

\* db_ok: whether the upsert succeeded; a failure is caught and logged
add_lot_tract_mapping(lot_number, tract_number, city, apn, db_ok) ==
    /\ pc = "idle"
    /\ adds < MaxAdds
    /\ adds' = adds + 1
    /\ lot_tract_cache' = DictPut(lot_tract_cache,
                                  LotTractKey(lot_number, tract_number, Lower(city)),
                                  apn)
    /\ lookup_table' = IF db_ok
                       THEN Upsert(lookup_table,
                                   [lot_number |-> lot_number,
                                    tract_number |-> tract_number,
                                    city |-> city, apn |-> apn])
                       ELSE lookup_table
    /\ UNCHANGED <<matcher, lot_tract_iter, map_at_call, pc, rec, attempted,
                   result>>

AddMapping ==
    \E row \in AddedRows, db_ok \in BOOLEAN :
        add_lot_tract_mapping(row.lot_number, row.tract_number, row.city,
                              row.apn, db_ok)

CallMatch == \E r \in Records : Call(r)

Next ==
    \/ CallMatch
    \/ TryApn
    \/ TryLotTract
    \/ TryAddress
    \/ Return
    \/ AddMapping

Spec == Init /\ [][Next]_vars

\* ------------------------------------------------------------------------
\* PropertyMatcher.match as one function of the matcher and the record
\* ------------------------------------------------------------------------
match(watchlist, cache, index, r) ==
    LET r1 == _match_by_apn(watchlist, r.apn)
        r2 == _match_by_lot_tract(watchlist, cache, r.lot_number,
                                  r.tract_number, r.city)
        r3 == _match_by_address(index, r.address, r.city)
    IN  IF Truthy(r.apn) /\ r1.matched THEN r1
        ELSE IF Truthy(r.lot_number) /\ Truthy(r.tract_number) /\ r2.matched THEN r2
        ELSE IF Truthy(r.address) /\ Truthy(r.city) /\ r3.matched THEN r3
        ELSE NoMatchResult

\* ------------------------------------------------------------------------
\* DeedRecord.apn_normalized read on records of every short identifier
\* ------------------------------------------------------------------------
\* longest identifier read
MaxApnLen == 3

IdentifierChars == {"1", "a", "-", " ", "."}

RECURSIVE StringsUpTo(_, _)
StringsUpTo(C, n) ==
    IF n = 0 THEN {<<>>}
    ELSE LET shorter == StringsUpTo(C, n - 1)
         IN  shorter \cup {Append(s, c) : <<s, c>> \in
                               {p \in shorter \X C : Len(p[1]) = n - 1}}

InitNormalize ==
    /\ watchlist_cache = <<>>
    /\ lookup_table = <<>>
    /\ lot_tract_cache = <<>>
    /\ address_index = <<>>
    /\ adds = 0
    /\ pc = "idle"
    /\ rec = NoRecord
    /\ attempted = <<>>
    /\ result = NoResult
    /\ apn_in \in StringsUpTo(IdentifierChars, MaxApnLen) \cup {None}
    /\ apn_out = Unread
    /\ load_error = ""
    /\ constructed_from = <<>>
    /\ lot_tract_iter = NoIter
    /\ dtt_rate = DefaultRate
    /\ sale_price = Uncalled
    /\ map_at_call = <<>>
    /\ NoMonitor

ReadApnNormalized ==
    /\ apn_out = Unread
    /\ apn_out' = apn_normalized(apn_in)
    /\ UNCHANGED <<watchlist_cache, lot_tract_cache, address_index, lookup_table,
                   adds, pc, rec, attempted, result, apn_in, load_error,
                   constructed_from, lot_tract_iter, dtt_rate, sale_price,
                   map_at_call,
                   monitor>>

NextNormalize == ReadApnNormalized

SpecNormalize == InitNormalize /\ [][NextNormalize]_vars

\* ------------------------------------------------------------------------
\* PropertyMatcher.__init__ on a reference table that may fail to load
\* ------------------------------------------------------------------------
\* most rows of the reference table read at construction
MaxTableRows == 2

\* a row of lot_tract_apn_lookup whose city column is null
RowNullCity == [lot_number |-> Str_6, tract_number |-> Str_10,
                city |-> None, apn |-> Str_4]

\* before PropertyMatcher(db, watchlist_cache): the caller has its watchlist
\* dict, the table has its rows
InitConstruct ==
    /\ \E rows \in SeqsUpTo(WatchRows, 1) :
           watchlist_cache = LoadWatchlist(rows, <<>>)
    /\ lookup_table \in SeqsUpTo({RowOrange, RowAnaheim, RowNullCity}, MaxTableRows)
    /\ lot_tract_cache = <<>>
    /\ address_index = <<>>
    /\ adds = 0
    /\ pc = "new"
    /\ rec = NoRecord
    /\ attempted = <<>>
    /\ result = NoResult
    /\ apn_in = None
    /\ apn_out = Unread
    /\ load_error = ""
    /\ constructed_from = <<>>
    /\ lot_tract_iter = NoIter
    /\ dtt_rate = DefaultRate
    /\ sale_price = Uncalled
    /\ map_at_call = <<>>
    /\ NoMonitor

\* PropertyMatcher.__init__(supabase_client, watchlist_cache): the address
\* index is built, the table is loaded, and the constructor returns whatever
\* the loading caught
__init__(db_up) ==
    /\ pc = "new"
    /\ address_index' = _build_address_index(watchlist_cache)
    /\ constructed_from' = watchlist_cache
    /\ lot_tract_cache' = _load_lot_tract_mapping(lookup_table, db_up)
    /\ load_error' = LoadError(lookup_table, db_up)
    /\ pc' = "idle"
    /\ UNCHANGED <<watchlist_cache, lookup_table, adds, rec, attempted, result,
                   apn_in, apn_out, lot_tract_iter, dtt_rate, sale_price,
                   map_at_call,
                   monitor>>

Construct == \E db_up \in BOOLEAN : __init__(db_up)

\* the records of the pool that have only lot, tract and city
LotTractRecords ==
    {r \in Records : /\ r.apn = None /\ r.address = None
                     /\ r.documentary_transfer_tax = NoAmount}

CallLotTract == \E r \in LotTractRecords : Call(r)

NextConstruct ==
    \/ Construct
    \/ CallLotTract
    \/ TryApn
    \/ TryLotTract
    \/ TryAddress
    \/ Return

SpecConstruct == InitConstruct /\ [][NextConstruct]_vars

\* ------------------------------------------------------------------------
\* lot/tract resolution over tables whose rows differ in the capitalization
\* of the city
\* ------------------------------------------------------------------------
\* the lot and tract of RowOrange with the city in capitals and another
\* identifier
RowORANGE == [lot_number |-> Str_5, tract_number |-> Str_10,
              city |-> Str_ORANGE, apn |-> Str_3]

\* PropertyMatcher.__init__ on a watchlist of at most one row and a table
\* that loads without failure
InitCity ==
    /\ \E rows \in SeqsUpTo(WatchRows, 1) :
           watchlist_cache = LoadWatchlist(rows, <<>>)
    /\ lookup_table \in SeqsUpTo({RowOrange, RowORANGE, RowAnaheim}, MaxTableRows)
    /\ lot_tract_cache = _load_lot_tract_mapping(lookup_table, TRUE)
    /\ address_index = _build_address_index(watchlist_cache)
    /\ adds = 0
    /\ pc = "idle"
    /\ rec = NoRecord
    /\ attempted = <<>>
    /\ result = NoResult
    /\ apn_in = None
    /\ apn_out = Unread
    /\ load_error = ""
    /\ constructed_from = watchlist_cache
    /\ lot_tract_iter = NoIter
    /\ dtt_rate = DefaultRate
    /\ sale_price = Uncalled
    /\ map_at_call = <<>>
    /\ NoMonitor

\* the records of the pool without identifier and without address
NoIdentifierRecords ==
    {r \in Records : /\ ~Truthy(r.apn) /\ r.address = None
                     /\ r.documentary_transfer_tax = NoAmount}

CallNoIdentifier == \E r \in NoIdentifierRecords : Call(r)

NextCity ==
    \/ CallNoIdentifier
    \/ TryApn
    \/ TryLotTract
    \/ TryAddress
    \/ Return
    \/ AddMapping

SpecCity == InitCity /\ [][NextCity]_vars

\* ------------------------------------------------------------------------
\* the address strategy on one address written in many ways
\* ------------------------------------------------------------------------
\* "North" as a deed or a watchlist row may write it
DirectionVariants == {<<"N">>, <<"n", ".">>, <<"N", "o", "r", "t", "h">>}

\* "Street" as a deed or a watchlist row may write it
StreetTypeVariants ==
    {<<"S", "t", ".">>, <<"S", "t", "r", "e", "e", "t">>,
     <<"S", "T", "R", "E", "E", "T">>}

\* the whitespace between two words
GapVariants == {<<" ">>, <<" ", " ">>}

\* what surrounds the address: <<before, after>>
SurroundVariants == {<<<<>>, <<>>>>, <<<<" ">>, <<" ">>>>, <<<<"#">>, <<",">>>>}

\* the ways of writing "<number> North Main Street"; number is <<>> for the
\* address without street number
WaysOfWriting(number) ==
    {sur[1] \o number \o (IF number = <<>> THEN <<>> ELSE gap) \o dir \o <<" ">>
         \o <<"M", "a", "i", "n">> \o gap \o typ \o sur[2] :
         <<dir, typ, gap, sur>> \in DirectionVariants \X StreetTypeVariants
                                        \X GapVariants \X SurroundVariants}

\* "12 North Main Street" in its ways of writing
NumberedVariants == WaysOfWriting(<<"1", "2">>)

\* "North Main Street" in its ways of writing
BareVariants == WaysOfWriting(<<>>)

\* the ways of writing that a watchlist row takes: single spaces, nothing
\* around the address
WatchedVariants ==
    {a \in NumberedVariants \cup BareVariants :
        /\ a[1] \notin {"#", " "}
        /\ \A i \in 1..(Len(a) - 1) : ~(a[i] = " " /\ a[i + 1] = " ")}

\* the watchlist row with the address as written
AddressRow(address) ==
    [id |-> "wD", apn |-> Str_4, apn_normalized |-> None,
     address |-> address, city |-> Str_Orange]

\* PropertyMatcher.__init__ on a watchlist of one row
InitAddress ==
    /\ \E a \in WatchedVariants :
           watchlist_cache = LoadWatchlist(<<AddressRow(a)>>, <<>>)
    /\ lookup_table = <<>>
    /\ lot_tract_cache = <<>>
    /\ address_index = _build_address_index(watchlist_cache)
    /\ adds = 0
    /\ pc = "idle"
    /\ rec = NoRecord
    /\ attempted = <<>>
    /\ result = NoResult
    /\ apn_in = None
    /\ apn_out = Unread
    /\ load_error = ""
    /\ constructed_from = watchlist_cache
    /\ lot_tract_iter = NoIter
    /\ dtt_rate = DefaultRate
    /\ sale_price = Uncalled
    /\ map_at_call = <<>>
    /\ NoMonitor

\* records with an address and a city only
AddressRecords ==
    [apn : {None}, lot_number : {None}, tract_number : {None},
     city : {Str_Orange, Str_ORANGE},
     address : NumberedVariants \cup BareVariants,
     documentary_transfer_tax : {NoAmount}]

CallAddress == \E r \in AddressRecords : Call(r)

NextAddress ==
    \/ CallAddress
    \/ TryApn
    \/ TryLotTract
    \/ TryAddress
    \/ Return

SpecAddress == InitAddress /\ [][NextAddress]_vars

\* ------------------------------------------------------------------------
\* match in one thread and add_lot_tract_mapping in another, without lock:
\* the lookup of _match_by_lot_tract one step per read of the shared dict
\* ------------------------------------------------------------------------
\* the end of _match_by_lot_tract, from "if not apn" after the lookups
ResolvedResult(watchlist, apn, lot_number, tract_number) ==
    IF ~Truthy(apn)
    THEN Unmatched(Note("No APN found for Lot {}, Tract {}",
                        <<lot_number, tract_number>>))
    ELSE IF DictHas(watchlist, StripDashSpace(apn))
    THEN MatchResult(TRUE, DictAt(watchlist, StripDashSpace(apn)), "lot_tract",
                     LotTractConfidence, apn,
                     Note("Matched via Lot {}, Tract {}",
                          <<lot_number, tract_number>>))
    ELSE Unmatched(Note("APN {} from Lot/Tract not in watchlist", <<apn>>))

\* the lookup is over and resolved apn: the rest of Strategy 2
FinishLotTract(apn) ==
    /\ Ran("lot_tract",
           ResolvedResult(watchlist_cache, apn, rec.lot_number, rec.tract_number),
           "address")
    /\ lot_tract_iter' = NoIter

\* Strategy 2 up to the exact lookup: the emptiness test and
\* lot_tract_cache.get(key); a miss creates the iterator of
\* lot_tract_cache.items(), which remembers the size of the dict
LotTractLookup ==
    /\ pc = "lot_tract"
    /\ IF ~(Truthy(rec.lot_number) /\ Truthy(rec.tract_number))
       THEN Skipped("address") /\ lot_tract_iter' = NoIter
       ELSE IF lot_tract_cache = <<>>
       THEN /\ Ran("lot_tract",
                   Unmatched(Note("Lot/Tract lookup not available", <<>>)),
                   "address")
            /\ lot_tract_iter' = NoIter
       ELSE LET apn == ExactLookup(lot_tract_cache, rec.lot_number,
                                   rec.tract_number, rec.city)
            IN  IF Truthy(apn) THEN FinishLotTract(apn)
                ELSE /\ pc' = "scan"
                     /\ lot_tract_iter' = [pos |-> 0, used |-> Len(lot_tract_cache)]
                     /\ UNCHANGED <<attempted, result>>
    /\ UNCHANGED <<matcher, map_at_call, lot_tract_cache, lookup_table, adds, rec>>

\* one turn of "for cache_key, cache_apn in self.lot_tract_cache.items()":
\* the iterator raises RuntimeError (dictionary changed size during
\* iteration) when the dict has another size than at its creation, stops
\* after the last item, and else gives the next item to the loop body
ScanNext ==
    /\ pc = "scan"
    /\ IF Len(lot_tract_cache) # lot_tract_iter.used
       THEN Raised /\ lot_tract_iter' = NoIter
       ELSE IF lot_tract_iter.pos = Len(lot_tract_cache)
       THEN FinishLotTract(None)
       ELSE LET item == lot_tract_cache[lot_tract_iter.pos + 1]
                parts == SplitOn(item[1], "|")
            IN  IF /\ Len(parts) >= 2
                   /\ parts[1] = rec.lot_number
                   /\ parts[2] = rec.tract_number
                THEN FinishLotTract(item[2])
                ELSE /\ lot_tract_iter' = [lot_tract_iter EXCEPT !.pos = @ + 1]
                     /\ UNCHANGED <<pc, attempted, result>>
    /\ UNCHANGED <<matcher, map_at_call, lot_tract_cache, lookup_table, adds, rec>>

\* add_lot_tract_mapping called by another thread, wherever match stands
AddInThread ==
    \E row \in AddedRows, db_ok \in BOOLEAN :
        /\ adds < MaxAdds
        /\ adds' = adds + 1
        /\ lot_tract_cache' = DictPut(lot_tract_cache,
                                      LotTractKey(row.lot_number, row.tract_number,
                                                  Lower(row.city)),
                                      row.apn)
        /\ lookup_table' = IF db_ok THEN Upsert(lookup_table, row) ELSE lookup_table
        /\ UNCHANGED <<matcher, lot_tract_iter, map_at_call, pc, rec, attempted,
                       result>>

NextConcurrent ==
    \/ CallNoIdentifier
    \/ TryApn
    \/ LotTractLookup
    \/ ScanNext
    \/ TryAddress
    \/ Return
    \/ Propagate
    \/ AddInThread

\* a matcher constructed on at most one watchlist row
InitConcurrent == Init /\ Len(watchlist_cache) <= 1

SpecConcurrent == InitConcurrent /\ [][NextConcurrent]_vars

\* ------------------------------------------------------------------------
\* DeedRecord.calculate_sale_price
\* ------------------------------------------------------------------------
\* the largest amount of tax of the enumerated records, either sign
MaxTax == 8

\* documentary_transfer_tax: None, a number up to MaxTax of either sign, or
\* the 2860 of test_calculate_sale_price
Taxes == {NoAmount} \cup {<<n>> : n \in (-MaxTax..MaxTax) \cup {2860}}

\* dtt_rate: the default 1.10, and 0.55, 2.20, 16.0, 3.0, 7.0
Rates == {DefaultRate, <<55, 100>>, <<220, 100>>, <<16, 1>>, <<3, 1>>, <<7, 1>>}

\* round(num / den, 0) for den > 0: the nearest whole number, the even one of
\* the two when num / den lies halfway
round(num, den) ==
    LET floor == num \div den
        twice == 2 * (num - floor * den)
    IN  IF twice > den THEN floor + 1
        ELSE IF twice < den THEN floor
        ELSE IF floor % 2 = 0 THEN floor ELSE floor + 1

\* the method without the test for a positive tax
calculate_sale_price_truthy(documentary_transfer_tax, rate) ==
    IF documentary_transfer_tax # NoAmount /\ documentary_transfer_tax[1] # 0
    THEN <<round(documentary_transfer_tax[1] * 1000 * rate[2], rate[1])>>
    ELSE NoAmount

calculate_sale_price(documentary_transfer_tax, rate) ==
    IF /\ documentary_transfer_tax # NoAmount
       /\ documentary_transfer_tax[1] # 0
       /\ documentary_transfer_tax[1] > 0
    THEN <<round(documentary_transfer_tax[1] * 1000 * rate[2], rate[1])>>
    ELSE NoAmount

InitPrice ==
    /\ watchlist_cache = <<>>
    /\ lookup_table = <<>>
    /\ lot_tract_cache = <<>>
    /\ address_index = <<>>
    /\ adds = 0
    /\ pc = "idle"
    /\ rec \in {[NoRecord EXCEPT !.documentary_transfer_tax = tax] :
                    tax \in Taxes}
    /\ attempted = <<>>
    /\ result = NoResult
    /\ apn_in = None
    /\ apn_out = Unread
    /\ load_error = ""
    /\ constructed_from = <<>>
    /\ lot_tract_iter = NoIter
    /\ dtt_rate = DefaultRate
    /\ sale_price = Uncalled
    /\ map_at_call = <<>>
    /\ NoMonitor

\* record.calculate_sale_price(dtt_rate)
CalculateSalePrice ==
    /\ pc \in {"idle", "priced"}
    /\ \E rate \in Rates :
           /\ dtt_rate' = rate
           /\ sale_price' = calculate_sale_price(rec.documentary_transfer_tax,
                                                 rate)
    /\ pc' = "priced"
    /\ UNCHANGED <<watchlist_cache, lot_tract_cache, address_index,
                   lookup_table, adds, rec, attempted, result, apn_in, apn_out,
                   load_error, constructed_from, lot_tract_iter, map_at_call,
                   monitor>>

NextPrice == CalculateSalePrice

SpecPrice == InitPrice /\ [][NextPrice]_vars

\* ------------------------------------------------------------------------
\* the caller changes the watchlist dict it gave to the constructor:
\* self.watchlist_cache = watchlist_cache keeps that dict itself, and the
\* address index keeps what _build_address_index read from it
\* ------------------------------------------------------------------------
\* a row for the identifier of wA, as a reload of the watchlist gives it
\* after the parcel was edited
RowReplacement == [id |-> "wE", apn |-> Str_1s2, apn_normalized |-> None,
                   address |-> Str_1_ac, city |-> Str_Anaheim]

\* the caller runs watchlist[normalized] = row between two match calls
CallerPut ==
    /\ pc = "idle"
    /\ Len(watchlist_cache) < MaxWatch
    /\ \E row \in WatchRows \cup {RowReplacement} :
           watchlist_cache' = LoadWatchlist(<<row>>, watchlist_cache)
    /\ UNCHANGED <<lot_tract_cache, address_index, lookup_table, adds, pc, rec,
                   attempted, result, apn_in, apn_out, load_error,
                   constructed_from, lot_tract_iter, dtt_rate, sale_price,
                   map_at_call,
                   monitor>>

\* the caller runs del watchlist[key] between two match calls
CallerDel ==
    /\ pc = "idle"
    /\ \E i \in 1..Len(watchlist_cache) :
           watchlist_cache' = SubSeq(watchlist_cache, 1, i - 1)
                                  \o SubSeq(watchlist_cache, i + 1,
                                            Len(watchlist_cache))
    /\ UNCHANGED <<lot_tract_cache, address_index, lookup_table, adds, pc, rec,
                   attempted, result, apn_in, apn_out, load_error,
                   constructed_from, lot_tract_iter, dtt_rate, sale_price,
                   map_at_call,
                   monitor>>

\* the records of one identifier spelling, without a transfer tax
AliasRecords ==
    {r \in Records : /\ r.apn \in {None, Str_1d2}
                     /\ r.address \in {None, Str_1_Ab, Str_1_axy}
                     /\ r.documentary_transfer_tax = NoAmount}

CallAlias == \E r \in AliasRecords : Call(r)

NextAlias ==
    \/ CallAlias
    \/ TryApn
    \/ TryLotTract
    \/ TryAddress
    \/ Return
    \/ CallerPut
    \/ CallerDel

\* a matcher constructed on at most one watchlist row and a table of one row
InitAlias == Init /\ Len(watchlist_cache) <= 1 /\ lookup_table = <<RowAnaheim>>

SpecAlias == InitAlias /\ [][NextAlias]_vars

\* ------------------------------------------------------------------------
\* DeedMonitor._load_watchlist_cache over a table delivered in pages
\* ------------------------------------------------------------------------
\* page_size, 1000 in the code
PageSize == 2

\* most rows of the table apn_watchlist
MaxWatchTable == 4

\* rows of apn_watchlist beside WatchRows: one whose identifier normalizes to
\* the key of wA, one whose apn_normalized column is the empty string, one
\* whose apn_normalized column is not what its apn normalizes to
TableOnlyRows ==
    { RowReplacement,
      [id |-> "wF", apn |-> Str_1d2, apn_normalized |-> <<>>,
       address |-> Str_1_ab, city |-> Str_Anaheim],
      [id |-> "wG", apn |-> Str_4, apn_normalized |-> Str_3,
       address |-> Str_1_AB, city |-> Str_Orange] }

\* result.data of select(...).range(offset, last): the rows at the positions
\* offset..last, counted from 0, that the table has
TableRange(table, offset, last) ==
    SubSeq(table, offset + 1, IF last + 1 < Len(table) THEN last + 1 ELSE Len(table))

\* _load_watchlist_cache stopping after the first page
_load_watchlist_cache_first_page(table, offset, cache) ==
    LoadWatchlist(TableRange(table, offset, offset + PageSize - 1), cache)

\* the while loop of DeedMonitor._load_watchlist_cache from an offset on
RECURSIVE _load_watchlist_cache(_, _, _)
_load_watchlist_cache(table, offset, cache) ==
    LET data == TableRange(table, offset, offset + PageSize - 1)
    IN  IF data = <<>> THEN cache
        ELSE IF Len(data) < PageSize THEN LoadWatchlist(data, cache)
        ELSE _load_watchlist_cache(table, offset + PageSize,
                                   LoadWatchlist(data, cache))

\* DeedMonitor.__init__ before the watchlist is loaded
InitWatchlist ==
    /\ apn_watchlist \in SeqsUpTo(WatchRows \cup TableOnlyRows, MaxWatchTable)
    /\ watchlist_cache = <<>>
    /\ lookup_table = <<>>
    /\ lot_tract_cache = <<>>
    /\ address_index = <<>>
    /\ adds = 0
    /\ pc = "unloaded"
    /\ rec = NoRecord
    /\ attempted = <<>>
    /\ result = NoResult
    /\ apn_in = None
    /\ apn_out = Unread
    /\ load_error = ""
    /\ constructed_from = <<>>
    /\ lot_tract_iter = NoIter
    /\ dtt_rate = DefaultRate
    /\ sale_price = Uncalled
    /\ map_at_call = <<>>
    /\ NoRun

\* self._load_watchlist_cache() of DeedMonitor.__init__
LoadWatchlistCache ==
    /\ pc = "unloaded"
    /\ watchlist_cache' = _load_watchlist_cache(apn_watchlist, 0, <<>>)
    /\ pc' = "new"
    /\ UNCHANGED <<lot_tract_cache, address_index, lookup_table, adds, rec,
                   attempted, result, apn_in, apn_out, load_error,
                   constructed_from, lot_tract_iter, dtt_rate, sale_price,
                   map_at_call, monitor>>

NextWatchlist ==
    \/ LoadWatchlistCache
    \/ Construct

SpecWatchlist == InitWatchlist /\ [][NextWatchlist]_vars

\* ------------------------------------------------------------------------
\* the address strategy on buckets of several candidates, some with one
\* normalized address
\* ------------------------------------------------------------------------
\* PropertyMatcher.__init__ on a watchlist whose rows may share an address
InitBucket ==
    /\ \E rows \in SeqsUpTo(WatchRows \cup TableOnlyRows, MaxWatch) :
           watchlist_cache = LoadWatchlist(rows, <<>>)
    /\ lookup_table = <<>>
    /\ lot_tract_cache = <<>>
    /\ address_index = _build_address_index(watchlist_cache)
    /\ adds = 0
    /\ pc = "idle"
    /\ rec = NoRecord
    /\ attempted = <<>>
    /\ result = NoResult
    /\ apn_in = None
    /\ apn_out = Unread
    /\ load_error = ""
    /\ constructed_from = watchlist_cache
    /\ lot_tract_iter = NoIter
    /\ dtt_rate = DefaultRate
    /\ sale_price = Uncalled
    /\ map_at_call = <<>>
    /\ NoMonitor

\* the records of the pool that have only an address and a city
AddressOnlyRecords ==
    {r \in Records : /\ r.apn = None /\ r.lot_number = None
                     /\ r.tract_number = None
                     /\ r.documentary_transfer_tax = NoAmount}

CallAddressOnly == \E r \in AddressOnlyRecords : Call(r)

NextBucket ==
    \/ CallAddressOnly
    \/ TryApn
    \/ TryLotTract
    \/ TryAddress
    \/ Return

SpecBucket == InitBucket /\ [][NextBucket]_vars

\* ------------------------------------------------------------------------
\* DeedMonitor.run and DeedMonitor._process_record over the tables
\* deed_recordings, sale_alerts, apn_watchlist and monitor_runs
\* ------------------------------------------------------------------------
\* most non-dry runs
MaxRuns == 2

\* most records fetch_recordings returns
MaxFetched == 2

\* the deeds fetch_recordings can return, recorded on one day: D1 with an
\* identifier, D2 with lot and tract only, which the reference table resolves
\* to the identifier of wB, D3 with address and city only and no transfer tax
FetchedPool ==
    { [doc_number |-> "D1", apn |-> Str_1d2, lot_number |-> None,
       tract_number |-> None, city |-> None, address |-> None,
       documentary_transfer_tax |-> <<5>>],
      [doc_number |-> "D2", apn |-> None, lot_number |-> Str_5,
       tract_number |-> Str_10, city |-> None, address |-> None,
       documentary_transfer_tax |-> <<5>>],
      [doc_number |-> "D3", apn |-> None, lot_number |-> None,
       tract_number |-> None, city |-> Str_Orange, address |-> Str_1_Ab,
       documentary_transfer_tax |-> NoAmount] }

\* the table a database call of _process_record fails at, "" for none
DbFailures == {"", "deed_recordings", "sale_alerts", "apn_watchlist"}

\* deed_recordings.upsert(deed_data, on_conflict='doc_number,recording_date'):
\* the row replaces the row of the same document, else it is appended
UpsertDeed(rows, row) ==
    IF \E i \in 1..Len(rows) : rows[i].doc_number = row.doc_number
    THEN [i \in 1..Len(rows) |->
              IF rows[i].doc_number = row.doc_number THEN row ELSE rows[i]]
    ELSE Append(rows, row)

\* sale_alerts.upsert(alert_data, on_conflict='watchlist_id,deed_id')
UpsertAlert(rows, row) ==
    IF \E i \in 1..Len(rows) : /\ rows[i].watchlist_id = row.watchlist_id
                               /\ rows[i].deed_id = row.deed_id
    THEN [i \in 1..Len(rows) |->
              IF /\ rows[i].watchlist_id = row.watchlist_id
                 /\ rows[i].deed_id = row.deed_id
              THEN row ELSE rows[i]]
    ELSE Append(rows, row)

\* the matching of _process_record, m being what self._property_matcher
\* .match(record) returns: the watchlist entry, NoEntry for none, with apn,
\* apn_normalized, match_method and match_confidence
MatchRecord(record, m) ==
    LET apn == record.apn
        apn_norm == IF Truthy(apn) THEN StripDashSpace(apn)
                    ELSE apn_normalized(record.apn)
    IN  IF Truthy(apn_norm) /\ DictHas(watchlist_cache, apn_norm)
        THEN [watchlist_entry |-> DictAt(watchlist_cache, apn_norm),
              apn |-> apn, apn_normalized |-> apn_norm,
              match_method |-> "apn", match_confidence |-> One]
        ELSE IF m.matched
        THEN [watchlist_entry |-> m.watchlist_entry,
              apn |-> m.matched_apn,
              apn_normalized |-> IF Truthy(m.matched_apn)
                                 THEN StripDashSpace(m.matched_apn) ELSE None,
              match_method |-> m.match_method,
              match_confidence |-> m.confidence]
        ELSE [watchlist_entry |-> NoEntry, apn |-> apn,
              apn_normalized |-> apn_norm,
              match_method |-> "apn", match_confidence |-> One]

\* alert_data of _process_record
AlertData(record, entry, deed_id, price) ==
    [watchlist_id |-> entry.id, deed_id |-> deed_id, apn |-> record.apn,
     sale_price |-> price]

\* deed_data of _process_record
DeedData(record, m, price) ==
    [doc_number |-> record.doc_number,
     apn |-> m.apn,
     apn_normalized |-> m.apn_normalized,
     calculated_sale_price |-> price,
     matched_watchlist_id |-> m.watchlist_entry.id,
     match_method |-> m.match_method]

\* how far _process_record gets: the early returns for no match and dry_run,
\* the database call that raises, and the log line after the alert, which
\* formats sale_price with ",.0f" and raises TypeError for None
Progress(matched, price, dry, fails) ==
    LET writes == matched /\ ~dry
        wrote_deed == writes /\ fails # "deed_recordings"
        wrote_alert == wrote_deed /\ fails # "sale_alerts"
        notified == wrote_alert /\ price # NoAmount
        updated == notified /\ fails # "apn_watchlist"
    IN  [matched |-> matched, writes |-> writes, wrote_deed |-> wrote_deed,
         wrote_alert |-> wrote_alert, notified |-> notified,
         updated |-> updated, raised |-> writes /\ ~updated]

\* DeedMonitor.__init__ on a watchlist table and the reference table, before
\* the first run
InitMonitor ==
    /\ apn_watchlist \in {rows \in SeqsUpTo(WatchRows, MaxWatch) :
                             Len(rows) = MaxWatch /\ rows[1].id = "wA"}
    /\ watchlist_cache = _load_watchlist_cache(apn_watchlist, 0, <<>>)
    /\ lookup_table = <<RowAnaheim>>
    /\ lot_tract_cache = _load_lot_tract_mapping(lookup_table, TRUE)
    /\ address_index = _build_address_index(watchlist_cache)
    /\ adds = 0
    /\ pc = "idle"
    /\ rec = NoRecord
    /\ attempted = <<>>
    /\ result = NoResult
    /\ apn_in = None
    /\ apn_out = Unread
    /\ load_error = ""
    /\ constructed_from = watchlist_cache
    /\ lot_tract_iter = NoIter
    /\ dtt_rate = DefaultRate
    /\ sale_price = Uncalled
    /\ map_at_call = <<>>
    /\ NoRun

\* what DeedMonitor.run and _process_record never write
outside_run == <<watchlist_cache, lot_tract_cache, address_index, lookup_table,
                 adds, rec, attempted, result, apn_in, apn_out, load_error,
                 constructed_from, lot_tract_iter, dtt_rate, sale_price,
                 map_at_call, apn_watchlist>>

\* run up to the fetch: stats is initialized and, unless dry_run, the
\* monitor_runs row is inserted with status 'running'; when the insert
\* raises, run_id is None and the except clause re-raises
RunStart ==
    /\ pc \in {"idle", "run_returned", "run_raised"}
    /\ Len(monitor_runs) < MaxRuns
    /\ \E dry \in BOOLEAN, insert_ok \in BOOLEAN :
           /\ dry => insert_ok
           /\ dry_run' = dry
           /\ monitor_runs' = IF ~dry /\ insert_ok
                              THEN Append(monitor_runs, "running")
                              ELSE monitor_runs
           /\ run_id' = IF ~dry /\ insert_ok THEN Len(monitor_runs) + 1 ELSE 0
           /\ pc' = IF insert_ok THEN "fetch" ELSE "run_raised"
    /\ stats' = NoStats
    /\ records' = <<>>
    /\ UNCHANGED <<outside_run, deed_recordings, sale_alerts, last_sale,
                   notifications>>

\* self.data_client.fetch_recordings(...) returns
Fetch ==
    /\ pc = "fetch"
    /\ \E fetched \in SeqsUpTo(FetchedPool, MaxFetched) :
           /\ records' = fetched
           /\ stats' = [stats EXCEPT !.records_fetched = Len(fetched)]
    /\ pc' = "loop"
    /\ UNCHANGED <<outside_run, deed_recordings, sale_alerts, last_sale,
                   monitor_runs, notifications, run_id, dry_run>>

\* fetch_recordings raises: the except clause of run marks the row 'failed'
\* and re-raises
FetchRaises ==
    /\ pc = "fetch"
    /\ monitor_runs' = IF ~dry_run /\ run_id # 0
                       THEN [monitor_runs EXCEPT ![run_id] = "failed"]
                       ELSE monitor_runs
    /\ pc' = "run_raised"
    /\ UNCHANGED <<outside_run, deed_recordings, sale_alerts, last_sale,
                   notifications, run_id, dry_run, stats, records>>

\* one turn of "for record in records" of run: _process_record(record,
\* dry_run) inside try/except Exception. A database call can raise; the log
\* line f"Alert created: ${sale_price:,.0f} ..." raises TypeError for a
\* sale_price of None, after the alert is upserted and before the
\* notification
ProcessRecord ==
    /\ pc = "loop"
    /\ records # <<>>
    /\ \E fails \in DbFailures,
          m \in {MatchRecord(Head(records),
                             match(watchlist_cache, lot_tract_cache,
                                   address_index, Head(records)))},
          price \in {calculate_sale_price(
                         Head(records).documentary_transfer_tax, DefaultRate)} :
           \E at \in {Progress(m.watchlist_entry # NoEntry, price, dry_run,
                               fails)},
              deeds \in {UpsertDeed(deed_recordings,
                                    DeedData(Head(records), m, price))} :
               \E deed_id \in {i \in 1..Len(deeds) :
                                  deeds[i].doc_number = Head(records).doc_number} :
                   \E alert_data \in {AlertData(Head(records), m.watchlist_entry,
                                                deed_id, price)} :
                       /\ fails = "" \/ at.writes
                       /\ (fails = "apn_watchlist") => at.notified
                       /\ deed_recordings' = IF at.wrote_deed THEN deeds
                                             ELSE deed_recordings
                       /\ sale_alerts' = IF at.wrote_alert
                                         THEN UpsertAlert(sale_alerts, alert_data)
                                         ELSE sale_alerts
                       /\ notifications' = IF at.notified
                                           THEN Append(notifications, alert_data)
                                           ELSE notifications
                       /\ last_sale' = IF at.updated
                                       THEN DictPut(last_sale,
                                                    m.watchlist_entry.id,
                                                    Head(records).doc_number)
                                       ELSE last_sale
                       /\ stats' =
                              IF at.raised
                              THEN [stats EXCEPT
                                        !.errors =
                                            Append(@, IF fails # "" THEN fails
                                                      ELSE "TypeError")]
                              ELSE [stats EXCEPT
                                        !.records_matched =
                                            IF at.matched THEN @ + 1 ELSE @,
                                        !.alerts_created =
                                            IF at.updated THEN @ + 1 ELSE @]
    /\ records' = Tail(records)
    /\ UNCHANGED <<outside_run, pc, monitor_runs, run_id, dry_run>>

\* RunReturns without the status update
RunReturns_no_update ==
    /\ pc = "loop"
    /\ records = <<>>
    /\ pc' = "run_returned"
    /\ UNCHANGED <<outside_run, deed_recordings, sale_alerts, last_sale,
                   monitor_runs, notifications, run_id, dry_run, stats,
                   records>>

\* after the loop: the row is updated to 'completed' and stats is returned
RunReturns ==
    /\ pc = "loop"
    /\ records = <<>>
    /\ monitor_runs' = IF ~dry_run /\ run_id # 0
                       THEN [monitor_runs EXCEPT ![run_id] = "completed"]
                       ELSE monitor_runs
    /\ pc' = "run_returned"
    /\ UNCHANGED <<outside_run, deed_recordings, sale_alerts, last_sale,
                   notifications, run_id, dry_run, stats, records>>

NextMonitor ==
    \/ RunStart
    \/ Fetch
    \/ FetchRaises
    \/ ProcessRecord
    \/ RunReturns

SpecMonitor == InitMonitor /\ [][NextMonitor]_vars

\* ------------------------------------------------------------------------
\* PropertyMatcher.match on records whose fields hold what the JSON sources
\* can put there: a str, a number, or nothing
\* ------------------------------------------------------------------------
DuckRecords ==
    [apn : {None, Str_1d2, IntValue(<<"1", "2">>)},
     lot_number : {None, Str_5, IntValue(Str_5)},
     tract_number : {None, Str_10},
     city : {None, Str_Orange, IntValue(Str_9)},
     address : {None, Str_1_Ab, IntValue(Str_3)},
     documentary_transfer_tax : {NoAmount, <<5>>, StrAmount(Str_5)}]

CallDuck == \E r \in DuckRecords : Call(r)

NextDuck ==
    \/ CallDuck
    \/ TryApn
    \/ TryLotTract
    \/ TryAddress
    \/ Return
    \/ Propagate

\* a matcher constructed on at most one watchlist row and at most one row of
\* the reference table
InitDuck ==
    /\ Init
    /\ Len(watchlist_cache) <= 1
    /\ lookup_table \in {<<>>, <<RowOrange>>}

SpecDuck == InitDuck /\ [][NextDuck]_vars

\* ------------------------------------------------------------------------
\* what a state shows of the running call
\* ------------------------------------------------------------------------
Done == pc = "done"

WasTried(strategy) == \E i \in 1..Len(attempted) : attempted[i][1] = strategy

\* the MatchResult the strategy gave, for a strategy that was tried
ResultOf(strategy) ==
    attempted[CHOOSE i \in 1..Len(attempted) : attempted[i][1] = strategy][2]

Rank(strategy) ==
    CASE strategy = "apn" -> 1
      [] strategy = "lot_tract" -> 2
      [] strategy = "address" -> 3

\* the watchlist holds a row under the identifier, normalized
Watched(apn) == Truthy(apn) /\ DictHas(watchlist_cache, RemoveChars(apn, {"-", " "}))

\* ------------------------------------------------------------------------
\* C1
\* ------------------------------------------------------------------------
\* C1: a record whose identifier normalizes to a key of the watchlist index
\* is matched by the identifier strategy to the entry under that key,
\* whatever its lot/tract, city and address and whatever the lot/tract table
\* holds.
C1_IdentifierWins ==
    (Done /\ Watched(rec.apn)) =>
        /\ result.matched
        /\ result.match_method = "apn"
        /\ result.watchlist_entry
               = DictAt(watchlist_cache, RemoveChars(rec.apn, {"-", " "}))

\* a call matched by identifier although the record's lot/tract resolves to
\* another watched parcel and its address matches a watched parcel too
C1_Witness ==
    /\ Done /\ Watched(rec.apn) /\ result.match_method = "apn"
    /\ Truthy(rec.lot_number) /\ Truthy(rec.tract_number)
    /\ LET other == ResolveLotTract(lot_tract_cache, rec.lot_number,
                                    rec.tract_number, rec.city)
       IN  /\ Watched(other)
           /\ RemoveChars(other, {"-", " "}) # RemoveChars(rec.apn, {"-", " "})
    /\ Truthy(rec.address) /\ Truthy(rec.city)
    /\ _match_by_address(address_index, rec.address, rec.city).matched

\* ------------------------------------------------------------------------
\* C2
\* ------------------------------------------------------------------------
\* C2: the strategies of one call run in the order identifier, lot/tract,
\* address; one runs only after every earlier one that ran failed; the first
\* success ends the call, and the returned entry is that strategy's.
C2_StrategyOrder ==
    /\ \A i, j \in 1..Len(attempted) :
           i < j => /\ Rank(attempted[i][1]) < Rank(attempted[j][1])
                    /\ ~attempted[i][2].matched
    /\ (attempted # <<>> /\ attempted[Len(attempted)][2].matched) =>
           /\ Done
           /\ result = attempted[Len(attempted)][2]
    /\ (Done /\ result.matched) =>
           /\ attempted # <<>>
           /\ result = attempted[Len(attempted)][2]
           /\ Cardinality({i \in 1..Len(attempted) : attempted[i][2].matched}) = 1

\* a call that returned the lot/tract match after the identifier failed,
\* without running the address strategy the record would allow
C2_Witness ==
    /\ Done /\ result.match_method = "lot_tract"
    /\ Len(attempted) = 2 /\ attempted[1][1] = "apn"
    /\ Truthy(rec.address) /\ Truthy(rec.city)

\* ------------------------------------------------------------------------
\* C3
\* ------------------------------------------------------------------------
\* identifiers written in other ways than the records': the identifiers a of
\* the claim
IdentifierVariants ==
    {Str_1d2, Str_1s2, Str_1p2, <<"1", "2">>, <<"1", "/", "2">>,
     <<"-", "1", " ", "2">>, Str_3, <<"3", "-">>, <<"-">>, <<" ">>}

\* the letters and digits of s, in order
AlnumOnly(s) ==
    LET keep == Digits \cup {LowerChars[i] : i \in 1..26}
                       \cup {UpperChars[i] : i \in 1..26}
    IN  SelectSeq(s, LAMBDA c : c \in keep)

\* b comes from a by inserting or deleting characters of the set delims
RECURSIVE SameBut(_, _, _)
SameBut(a, b, delims) ==
    IF a # <<>> /\ Head(a) \in delims THEN SameBut(Tail(a), b, delims)
    ELSE IF b # <<>> /\ Head(b) \in delims THEN SameBut(a, Tail(b), delims)
    ELSE IF a = <<>> \/ b = <<>> THEN a = b
    ELSE Head(a) = Head(b) /\ SameBut(Tail(a), Tail(b), delims)

\* a deed carrying the identifier a would match by the identifier strategy
WouldMatchByApn(a) == Truthy(a) /\ _match_by_apn(watchlist_cache, a).matched

C4_EmptyString ==
    (apn_out # Unread /\ ~Truthy(apn_in)) => apn_out = <<>>

\* C4 amended: DeedRecord.apn_normalized of an empty and of a missing
\* identifier is None, and of every other identifier a string.
C4_NoneForEmpty ==
    (apn_out # Unread) => (apn_out = None <=> ~Truthy(apn_in))

\* the property read on a record whose identifier is the empty string
C4_Witness == apn_in = <<>> /\ apn_out = None

\* ------------------------------------------------------------------------
\* C5
\* ------------------------------------------------------------------------
\* the identifier the lot/tract strategy resolved, read from its result: the
\* matched_apn of a match, the identifier named in the note of a non-match
ResolvedByLotTract ==
    IF ResultOf("lot_tract").matched THEN ResultOf("lot_tract").matched_apn
    ELSE IF ResultOf("lot_tract").notes.text = "APN {} from Lot/Tract not in watchlist"
    THEN ResultOf("lot_tract").notes.args[1]
    ELSE None

\* the positions of the table whose key is exactly lot|tract|lowercased city
ExactPositions ==
    {i \in 1..Len(lot_tract_cache) :
        lot_tract_cache[i][1] = rec.lot_number \o <<"|">> \o rec.tract_number
                                    \o <<"|">> \o CityLower(rec.city)}

\* C5: when the table has an entry under the exact key of the query, the
\* strategy resolves that entry's identifier, whatever else the table holds
\* and in whatever order.
C5_ExactKeyFirst ==
    (WasTried("lot_tract") /\ ExactPositions # {}) =>
        \E i \in ExactPositions : ResolvedByLotTract = lot_tract_cache[i][2]

\* the strategy ran with the exact entry second in the table, behind an entry
\* of the same lot and tract in another city and with another identifier
C5_Witness ==
    /\ WasTried("lot_tract") /\ ExactPositions # {}
    /\ ScanLookup(lot_tract_cache, rec.lot_number, rec.tract_number)
           # ResolvedByLotTract
    /\ ScanLookup(lot_tract_cache, rec.lot_number, rec.tract_number) # None

\* ------------------------------------------------------------------------
\* C6
\* ------------------------------------------------------------------------
\* the table without the entries of a lot and tract, whatever their city
WithoutLotTract(cache, lot_number, tract_number) ==
    SelectSeq(cache, LAMBDA e :
        LET parts == SplitOn(e[1], "|")
        IN  ~(Len(parts) >= 2 /\ parts[1] = lot_number /\ parts[2] = tract_number))

\* the lot/tract of the record resolves to an identifier off the watchlist
MappedButUnwatched ==
    /\ Truthy(rec.lot_number) /\ Truthy(rec.tract_number)
    /\ LET apn == ResolveLotTract(lot_tract_cache, rec.lot_number,
                                  rec.tract_number, rec.city)
       IN  Truthy(apn) /\ ~Watched(apn)

\* C6: the result of a call whose lot/tract resolved to an unwatched parcel,
\* and no strategy matched, has another note than the result of the same
\* call with no mapping for that lot/tract.
C6_NotesDistinguish ==
    (Done /\ ~result.matched /\ WasTried("lot_tract") /\ MappedButUnwatched) =>
        result.notes # match(watchlist_cache,
                             WithoutLotTract(lot_tract_cache, rec.lot_number,
                                             rec.tract_number),
                             address_index, rec).notes

\* ------------------------------------------------------------------------
\* C7
\* ------------------------------------------------------------------------
\* the candidates under the (street number, lowercased city) of the query
Bucket ==
    LET key == LeadingDigits(_normalize_address(rec.address)) \o <<"|">>
                   \o CityLower(rec.city)
    IN  IF DictHas(address_index, key) THEN DictAt(address_index, key) ELSE <<>>

\* the score of the i-th candidate of the bucket
ScoreOf(i) ==
    _address_similarity(_normalize_address(rec.address),
                        Bucket[i].normalized_address)

\* C7: the address strategy matches exactly when a candidate of the bucket
\* of the query scores 0.85 or more; otherwise it returns no entry.
C7_Threshold ==
    WasTried("address") =>
        /\ ResultOf("address").matched
               <=> \E i \in 1..Len(Bucket) : RatGE(ScoreOf(i), <<85, 100>>)
        /\ ~ResultOf("address").matched
               => ResultOf("address").watchlist_entry = NoEntry

\* the address strategy matched with a best score of exactly 0.85
C7_Witness ==
    /\ WasTried("address") /\ ResultOf("address").matched
    /\ RatEq(ResultOf("address").confidence, <<85, 100>>)

\* ------------------------------------------------------------------------
\* C8
\* ------------------------------------------------------------------------
\* the best score of the bucket, for a bucket with candidates
BestScore ==
    LET scores == {ScoreOf(i) : i \in 1..Len(Bucket)}
    IN  CHOOSE s \in scores : \A t \in scores : RatGE(s, t)

\* C8: when the address strategy ran and its best candidate scored below
\* 0.85, the note of the result of match names that best score.
C8_BestScoreReported ==
    (Done /\ WasTried("address") /\ Bucket # <<>>
          /\ ~RatGE(BestScore, <<85, 100>>)) =>
        \E k \in 1..Len(result.notes.args) :
            result.notes.args[k] = FormatPercent1(BestScore)

\* ------------------------------------------------------------------------
\* C9
\* ------------------------------------------------------------------------
\* C9: an entry the address strategy returns has the street number and the
\* lowercased city of the query.
C9_SameCity ==
    (WasTried("address") /\ ResultOf("address").matched) =>
        LET entry == ResultOf("address").watchlist_entry
        IN  /\ CityLower(entry.city) = Lower(rec.city)
            /\ LeadingDigits(_normalize_address(entry.address))
                   = LeadingDigits(_normalize_address(rec.address))

\* the address strategy matched while the watchlist has an entry of the same
\* normalized address in another city
C9_Witness ==
    /\ WasTried("address") /\ ResultOf("address").matched
    /\ \E i \in 1..Len(watchlist_cache) :
           /\ _normalize_address(watchlist_cache[i][2].address)
                  = _normalize_address(rec.address)
           /\ CityLower(watchlist_cache[i][2].city) # Lower(rec.city)

\* ------------------------------------------------------------------------
\* C10
\* ------------------------------------------------------------------------
\* the record has no identifier, no lot/tract pair and no address
NothingToMatchOn ==
    /\ ~Truthy(rec.apn)
    /\ ~(Truthy(rec.lot_number) /\ Truthy(rec.tract_number))
    /\ ~Truthy(rec.address)

C11_NeverRaises == pc # "raised"

\* ------------------------------------------------------------------------
\* C12
\* ------------------------------------------------------------------------
\* C12: when the loading of the lot/tract table failed at construction, no
\* matcher came out of the constructor, and no match call runs on one.
C12_FailedLoadNotUsable ==
    (load_error # "") => pc \notin {"idle", "apn", "lot_tract", "address", "done"}

\* ------------------------------------------------------------------------
\* C13
\* ------------------------------------------------------------------------
\* C13: every add_lot_tract_mapping(lot, tract, city, identifier) step ends
\* with the identifier in the in-memory map under lot|tract|lowercased city,
\* whether the write to the table succeeded or failed; a failed write leaves
\* the table as it was and raises nothing.
C13_InMemoryInsert ==
    [][\A row \in AddedRows, db_ok \in BOOLEAN :
           add_lot_tract_mapping(row.lot_number, row.tract_number, row.city,
                                 row.apn, db_ok) =>
               LET key == row.lot_number \o <<"|">> \o row.tract_number
                              \o <<"|">> \o Lower(row.city)
               IN  /\ DictHas(lot_tract_cache', key)
                   /\ DictAt(lot_tract_cache', key) = row.apn
                   /\ pc' = "idle"
                   /\ ~db_ok => lookup_table' = lookup_table]_vars

\* after an add whose write to the table failed: the map holds a mapping
\* that no row of the table has
C13_Witness ==
    /\ adds > 0
    /\ \E row \in AddedRows :
           LET key == row.lot_number \o <<"|">> \o row.tract_number
                          \o <<"|">> \o Lower(row.city)
           IN  /\ DictHas(lot_tract_cache, key)
               /\ DictAt(lot_tract_cache, key) = row.apn
               /\ \A i \in 1..Len(lookup_table) : lookup_table[i] # row

\* ------------------------------------------------------------------------
\* C14
\* ------------------------------------------------------------------------
\* the table with the identifier stored under the exact key of the record
WithExactKey(apn) ==
    DictPut(lot_tract_cache,
            rec.lot_number \o <<"|">> \o rec.tract_number \o <<"|">>
                \o CityLower(rec.city),
            apn)

\* C14: the note of a result matched through the scan that ignores the city
\* differs from the note of the result the same record gets when the same
\* identifier is stored under its exact lot|tract|city key.
C14_FallbackDistinguishable ==
    (Done /\ result.match_method = "lot_tract" /\ ExactPositions = {}) =>
        result.notes # _match_by_lot_tract(watchlist_cache,
                                           WithExactKey(result.matched_apn),
                                           rec.lot_number, rec.tract_number,
                                           rec.city).notes

\* ------------------------------------------------------------------------
\* C15
\* ------------------------------------------------------------------------
\* C15: the MatchResult match returns has a confidence within [0, 1]; when
\* matched it has a watchlist entry, and the confidence is 1.0 for the
\* identifier strategy, 0.95 for the lot/tract strategy and within
\* [0.85, 1.0] for the address strategy; when not matched it has no entry,
\* an empty match_method and confidence 0.0.
C15_ResultShape ==
    Done =>
        /\ RatGE(result.confidence, <<0, 1>>) /\ RatGE(<<1, 1>>, result.confidence)
        /\ result.matched =>
               /\ result.watchlist_entry # NoEntry
               /\ \E i \in 1..Len(watchlist_cache) :
                      watchlist_cache[i][2] = result.watchlist_entry
               /\ result.match_method \in {"apn", "lot_tract", "address"}
               /\ result.match_method = "apn" =>
                      RatEq(result.confidence, <<1, 1>>)
               /\ result.match_method = "lot_tract" =>
                      RatEq(result.confidence, <<95, 100>>)
               /\ result.match_method = "address" =>
                      RatGE(result.confidence, <<85, 100>>)
        /\ ~result.matched =>
               /\ result.watchlist_entry = NoEntry
               /\ result.match_method = ""
               /\ result.confidence = <<0, 1>>

\* match returned an address match with a confidence below 1.0, after the
\* identifier and the lot/tract strategies had run and failed
C15_Witness ==
    /\ Done /\ result.matched /\ result.match_method = "address"
    /\ ~RatGE(result.confidence, <<1, 1>>)
    /\ Len(attempted) = 3

\* ------------------------------------------------------------------------
\* C16
\* ------------------------------------------------------------------------
\* the record has no identifier and has lot, tract and city
LotTractCityOnly ==
    /\ ~Truthy(rec.apn)
    /\ Truthy(rec.lot_number) /\ Truthy(rec.tract_number) /\ Truthy(rec.city)

\* match returned the lot/tract match to the watchlist entry of the identifier
MatchedByLotTractTo(apn) ==
    /\ result.matched
    /\ result.match_method = "lot_tract"
    /\ RatEq(result.confidence, <<95, 100>>)
    /\ result.watchlist_entry = DictAt(watchlist_cache, RemoveChars(apn, {"-", " "}))

WatchedAddress == watchlist_cache[1][2].address

\* the address of the record and the address of the watchlist row are two
\* ways of writing one address, in one city
SameAddressWrittenDifferently ==
    /\ \/ rec.address \in NumberedVariants /\ WatchedAddress \in NumberedVariants
       \/ rec.address \in BareVariants /\ WatchedAddress \in BareVariants
    /\ Lower(rec.city) = Lower(watchlist_cache[1][2].city)

\* C17 as claimed: two ways of writing one address have one normalized form,
\* score 0.85 or more and match by the address strategy.
C17_VariantsMatch ==
    (Done /\ SameAddressWrittenDifferently) =>
        /\ _normalize_address(rec.address) = _normalize_address(WatchedAddress)
        /\ RatGE(_address_similarity(_normalize_address(rec.address),
                                     _normalize_address(WatchedAddress)),
                 <<85, 100>>)
        /\ result.matched /\ result.match_method = "address"

\* C17 amended: two ways of writing one address have one normalized form and
\* score 1.0; they match by the address strategy, to the watchlist row,
\* exactly when the address begins with a street number.
C17_NumberedVariantsMatch ==
    (Done /\ SameAddressWrittenDifferently) =>
        /\ _normalize_address(rec.address) = _normalize_address(WatchedAddress)
        /\ RatEq(_address_similarity(_normalize_address(rec.address),
                                     _normalize_address(WatchedAddress)),
                 <<1, 1>>)
        /\ rec.address \in NumberedVariants =>
               /\ result.matched /\ result.match_method = "address"
               /\ result.watchlist_entry = watchlist_cache[1][2]
               /\ RatEq(result.confidence, <<1, 1>>)
        /\ rec.address \in BareVariants => ~result.matched

\* "#12  n. Main  STREET," matched the row "12 North Main St." of the same
\* city written in capitals
C17_Witness ==
    /\ Done /\ result.matched /\ result.match_method = "address"
    /\ rec.address = <<"#", "1", "2", " ", " ", "n", ".", " ", "M", "a", "i", "n",
                       " ", " ", "S", "T", "R", "E", "E", "T", ",">>
    /\ WatchedAddress = <<"1", "2", " ", "N", "o", "r", "t", "h", " ",
                          "M", "a", "i", "n", " ", "S", "t", ".">>
    /\ rec.city = Str_ORANGE

\* ------------------------------------------------------------------------
\* C18
\* ------------------------------------------------------------------------
\* C18: with an add_lot_tract_mapping running beside it without lock, a match
\* call raises nothing and returns what it returns alone on the map as it
\* was when the call began or on the map as it is when the call ends.
C18_SafeWithoutLocking ==
    /\ pc # "raised"
    /\ Done =>
           \/ result = match(watchlist_cache, map_at_call, address_index, rec)
           \/ result = match(watchlist_cache, lot_tract_cache, address_index, rec)

\* ------------------------------------------------------------------------
\* C19
\* ------------------------------------------------------------------------
\* C19: whatever the caller did to its watchlist dict after the
\* construction, match returns what it returns on the watchlist as it was
\* when the matcher was constructed.
C19_Snapshot ==
    Done => result = match(constructed_from, lot_tract_cache,
                           _build_address_index(constructed_from), rec)

\* ------------------------------------------------------------------------
\* C20
\* ------------------------------------------------------------------------
\* C20: calculate_sale_price returns None exactly when the tax is None or
\* not greater than 0; otherwise it returns a whole number at most one half
\* away from (tax / rate) * 1000, and 2600000 for 2860 at the rate 1.10.
C20_SalePrice ==
    pc = "priced" =>
        LET tax == rec.documentary_transfer_tax
        IN  /\ sale_price = NoAmount <=> (tax = NoAmount \/ ~(tax[1] > 0))
            /\ sale_price # NoAmount =>
                   LET off == sale_price[1] * dtt_rate[1]
                                  - tax[1] * 1000 * dtt_rate[2]
                   IN  /\ 2 * off <= dtt_rate[1]
                       /\ -2 * off <= dtt_rate[1]
            /\ (tax = <<2860>> /\ dtt_rate = DefaultRate) =>
                   sale_price = <<2600000>>

\* the tax 2860 priced at the default rate
C20_Witness ==
    /\ pc = "priced"
    /\ rec.documentary_transfer_tax = <<2860>>
    /\ dtt_rate = DefaultRate
    /\ sale_price = <<2600000>>

\* ------------------------------------------------------------------------
\* C21
\* ------------------------------------------------------------------------
\* apn_out is apn_in without its dashes and spaces, the rest kept in order
DashesAndSpacesRemoved ==
    /\ apn_out # None
    /\ SameBut(apn_out, apn_in, {"-", " "})
    /\ \A i \in 1..Len(apn_out) : apn_out[i] \notin {"-", " "}

\* C21 as claimed: apn_normalized is None when the apn is None, and for
\* every other apn the apn without its dashes and spaces, the other
\* characters kept in order.
C21_NoneOnlyForNone ==
    (apn_out # Unread) =>
        IF apn_in = None THEN apn_out = None ELSE DashesAndSpacesRemoved

\* C21 amended: apn_normalized is None when the apn is None or the empty
\* string, and for every other apn the apn without its dashes and spaces,
\* the other characters kept in order.
C21_NoneForNoneAndEmpty ==
    (apn_out # Unread) =>
        IF apn_in = None \/ apn_in = <<>> THEN apn_out = None
        ELSE DashesAndSpacesRemoved

\* the property read on an apn with a dash and a space
C21_Witness == apn_in = <<"1", "-", " ">> /\ apn_out = <<"1">>

\* ------------------------------------------------------------------------
\* C22
\* ------------------------------------------------------------------------
\* the positions of the table whose key begins with the lot and the tract of
\* the record, whatever city follows
LotTractPositions ==
    LET prefix == rec.lot_number \o <<"|">> \o rec.tract_number \o <<"|">>
    IN  {i \in 1..Len(lot_tract_cache) :
            /\ Len(lot_tract_cache[i][1]) >= Len(prefix)
            /\ SubSeq(lot_tract_cache[i][1], 1, Len(prefix)) = prefix}

\* C22: when the table has no entry under the exact key of the query, the
\* strategy resolves the identifier of the first entry, in insertion order,
\* with the lot and the tract of the query, and resolves nothing exactly
\* when the table has no entry with that lot and tract.
C22_FirstInOrder ==
    (WasTried("lot_tract") /\ ExactPositions = {}) =>
        IF LotTractPositions = {} THEN ResolvedByLotTract = None
        ELSE \E i \in LotTractPositions :
                 /\ \A j \in LotTractPositions : i <= j
                 /\ ResolvedByLotTract = lot_tract_cache[i][2]

\* the strategy ran on a table with two entries of the lot and tract, in two
\* cities and with two identifiers, none under the exact key, and resolved
\* the first one
C22_Witness ==
    /\ WasTried("lot_tract") /\ ExactPositions = {}
    /\ \E i, j \in LotTractPositions :
           /\ i < j
           /\ lot_tract_cache[i][2] # lot_tract_cache[j][2]
           /\ ResolvedByLotTract = lot_tract_cache[i][2]

\* ------------------------------------------------------------------------
\* C23
\* ------------------------------------------------------------------------
\* the key of a row: its apn_normalized column when that is present and not
\* empty, else its apn without dashes and spaces
KeyOfRow(row) ==
    IF row.apn_normalized # None /\ row.apn_normalized # <<>>
    THEN row.apn_normalized
    ELSE RemoveChars(row.apn, {"-", " "})

\* C23: after the load every row of the table, on whatever page, has its key
\* in the index; the index holds under each key the last row of the table
\* with that key, and holds no other key.
C23_PagedLoad ==
    (pc # "unloaded") =>
        /\ \A i \in 1..Len(apn_watchlist) :
               /\ DictHas(watchlist_cache, KeyOfRow(apn_watchlist[i]))
               /\ (\A j \in (i + 1)..Len(apn_watchlist) :
                       KeyOfRow(apn_watchlist[j]) # KeyOfRow(apn_watchlist[i]))
                      => DictAt(watchlist_cache, KeyOfRow(apn_watchlist[i]))
                             = apn_watchlist[i]
        /\ \A k \in 1..Len(watchlist_cache) :
               \E i \in 1..Len(apn_watchlist) :
                   KeyOfRow(apn_watchlist[i]) = watchlist_cache[k][1]

\* loaded from a table of more than one page, with a row of the first page
\* replaced by a row of a later page under the same key
C23_Witness ==
    /\ pc = "new"
    /\ \E i \in 1..PageSize, j \in (PageSize + 1)..Len(apn_watchlist) :
           /\ KeyOfRow(apn_watchlist[i]) = KeyOfRow(apn_watchlist[j])
           /\ DictAt(watchlist_cache, KeyOfRow(apn_watchlist[i]))
                  = apn_watchlist[Len(apn_watchlist)]
           /\ j = Len(apn_watchlist)

\* ------------------------------------------------------------------------
\* C24
\* ------------------------------------------------------------------------
\* C24: no step of a match call changes the watchlist index, the lot/tract
\* map or the address index, and the result of the call is the one function
\* of these three and the record, so that two calls with the same record and
\* no add_lot_tract_mapping between them return equal results.
C24_MatchChangesNothing ==
    [][(pc # "idle" \/ pc' # "idle") =>
           /\ watchlist_cache' = watchlist_cache
           /\ lot_tract_cache' = lot_tract_cache
           /\ address_index' = address_index
           /\ pc' = "done" =>
                  result' = match(watchlist_cache, lot_tract_cache,
                                  address_index, rec)]_vars

\* a call has matched by lot and tract through the scan after a mapping was
\* added
C24_Witness ==
    /\ Done /\ adds > 0
    /\ result.match_method = "lot_tract"
    /\ ExactPositions = {}

\* ------------------------------------------------------------------------
\* C25
\* ------------------------------------------------------------------------
\* C25: when the address strategy matches, the entry returned is a candidate
\* of the record's bucket whose score no candidate of the bucket exceeds, the
\* confidence is that score, and every candidate indexed before it scores
\* less.
C25_BestCandidate ==
    (Done /\ result.match_method = "address") =>
        \E i \in 1..Len(Bucket) :
            /\ result.watchlist_entry = Bucket[i].entry
            /\ RatEq(result.confidence, ScoreOf(i))
            /\ \A j \in 1..Len(Bucket) :
                   RatGE(ScoreOf(i), ScoreOf(j))
            /\ \A j \in 1..(i - 1) :
                   ~RatGE(ScoreOf(j), ScoreOf(i))

\* matched to the first of two candidates of one bucket with the same score
C25_Witness ==
    /\ Done /\ result.match_method = "address"
    /\ Len(Bucket) = 2
    /\ RatEq(ScoreOf(1), ScoreOf(2))
    /\ Bucket[1].entry # Bucket[2].entry
    /\ result.watchlist_entry = Bucket[1].entry

\* ------------------------------------------------------------------------
\* C26
\* ------------------------------------------------------------------------
\* the lot and tract of the record resolve to an identifier of the watchlist
LotTractWatched ==
    /\ Truthy(rec.lot_number) /\ Truthy(rec.tract_number)
    /\ Watched(ResolveLotTract(lot_tract_cache, rec.lot_number,
                               rec.tract_number, rec.city))

\* the address and city of the record score 0.85 or more against an entry
AddressWatched ==
    /\ Truthy(rec.address) /\ Truthy(rec.city)
    /\ \E i \in 1..Len(Bucket) : RatGE(ScoreOf(i), <<85, 100>>)

\* C26: a record whose identifier is absent or off the watchlist matches by
\* lot/tract when its lot and tract resolve to a watched parcel, and when
\* they are absent or do not, it matches by address when its address and
\* city score 0.85 or more against a watched entry.
C26_LaterStrategiesTried ==
    (Done /\ ~Watched(rec.apn)) =>
        /\ LotTractWatched =>
               result.matched /\ result.match_method = "lot_tract"
        /\ (~LotTractWatched /\ AddressWatched) =>
               result.matched /\ result.match_method = "address"

\* matched by address after the identifier strategy ran and failed and the
\* lot/tract strategy ran and failed
C26_Witness ==
    /\ Done /\ result.match_method = "address"
    /\ Len(attempted) = 3
    /\ ~Watched(rec.apn) /\ ~LotTractWatched

\* ------------------------------------------------------------------------
\* C27
\* ------------------------------------------------------------------------
\* the SequenceMatcher ratio of the record's address and the i-th candidate
\* of its bucket, both normalized
RatioOf(i) ==
    ratio(_normalize_address(rec.address), Bucket[i].normalized_address)

\* C27: every candidate the address strategy compares begins with the street
\* number of the query and scores its ratio plus 0.10, at most 1.0; the
\* strategy matches exactly when the ratio of some candidate is 0.75 or more.
C27_UnboostedThreshold ==
    WasTried("address") =>
        /\ \A i \in 1..Len(Bucket) :
               /\ LeadingDigits(Bucket[i].normalized_address)
                      = LeadingDigits(_normalize_address(rec.address))
               /\ RatEq(ScoreOf(i),
                        IF RatGE(RatioOf(i), <<90, 100>>) THEN <<1, 1>>
                        ELSE RatAdd(RatioOf(i), <<1, 10>>))
        /\ ResultOf("address").matched
               <=> \E i \in 1..Len(Bucket) : RatGE(RatioOf(i), <<75, 100>>)
        /\ Done => (result.matched <=> ResultOf("address").matched)

\* the address strategy matched on a bucket whose best ratio is exactly 0.75
C27_Witness ==
    /\ WasTried("address") /\ ResultOf("address").matched
    /\ \E i \in 1..Len(Bucket) : RatEq(RatioOf(i), <<75, 100>>)
    /\ \A i \in 1..Len(Bucket) : ~RatGE(RatioOf(i), <<76, 100>>)

\* ------------------------------------------------------------------------
\* C28: every sale alert carries the parcel identifier of the matched
\* watchlist entry: its apn is not empty and equals the apn of the
\* deed_recordings row of the same record.
\* ------------------------------------------------------------------------
C28_AlertCarriesMatchedApn ==
    \A i \in 1..Len(sale_alerts) :
        /\ Truthy(sale_alerts[i].apn)
        /\ sale_alerts[i].apn = deed_recordings[sale_alerts[i].deed_id].apn

\* ------------------------------------------------------------------------
\* C29: a deed processed again in a second run leaves one deed_recordings
\* row and one sale_alerts row for it and sends no second notification: no
\* two deed rows share a doc_number, no two alerts and no two notifications
\* share watchlist_id and deed_id.
\* ------------------------------------------------------------------------
SameAlert(a, b) == a.watchlist_id = b.watchlist_id /\ a.deed_id = b.deed_id

C29_NoSecondNotification ==
    /\ \A i, j \in 1..Len(deed_recordings) :
           deed_recordings[i].doc_number = deed_recordings[j].doc_number => i = j
    /\ \A i, j \in 1..Len(sale_alerts) :
           SameAlert(sale_alerts[i], sale_alerts[j]) => i = j
    /\ \A i, j \in 1..Len(notifications) :
           SameAlert(notifications[i], notifications[j]) => i = j

\* ------------------------------------------------------------------------
\* C30: a non-dry run that inserted its monitor_runs row ends with the row
\* 'completed' or 'failed', never 'running'; an exception while processing a
\* record goes to stats.errors, the remaining records are still processed
\* and the run ends 'completed'; an exception from fetching marks the run
\* 'failed' and is re-raised; alerts_created <= records_matched <=
\* records_fetched.
\* ------------------------------------------------------------------------
\* the run has inserted its row
RowInserted == ~dry_run /\ run_id # 0

C30_StateOfRun ==
    /\ \A i \in 1..Len(monitor_runs) :
           monitor_runs[i] = "running" => i = run_id /\ pc \in {"fetch", "loop"}
    /\ pc = "run_returned" =>
           /\ records = <<>>
           /\ ~dry_run => run_id # 0 /\ monitor_runs[run_id] = "completed"
    /\ pc = "run_raised" /\ RowInserted =>
           /\ monitor_runs[run_id] = "failed"
           /\ stats = NoStats
    /\ stats.alerts_created <= stats.records_matched
    /\ stats.records_matched + Len(stats.errors)
           <= stats.records_fetched - Len(records)

C30_StepOfRun ==
    /\ pc = "loop" /\ records # <<>> =>
           /\ pc' = "loop"
           /\ records' = Tail(records)
           /\ monitor_runs' = monitor_runs
           /\ stats'.records_fetched = stats.records_fetched
           /\ \/ /\ Len(stats'.errors) = Len(stats.errors) + 1
                 /\ stats'.records_matched = stats.records_matched
                 /\ stats'.alerts_created = stats.alerts_created
              \/ /\ stats'.errors = stats.errors
                 /\ stats'.records_matched - stats.records_matched \in {0, 1}
                 /\ stats'.alerts_created - stats.alerts_created \in {0, 1}
    /\ \A i \in 1..Len(monitor_runs) :
           monitor_runs[i] # "running" => monitor_runs'[i] = monitor_runs[i]

C30_RunEnds == []C30_StateOfRun /\ [][C30_StepOfRun]_vars

\* a non-dry run of two records, both of which raised, returned with its
\* row 'completed'
C30_Witness ==
    /\ pc = "run_returned"
    /\ RowInserted
    /\ monitor_runs[run_id] = "completed"
    /\ stats.records_fetched = 2
    /\ Len(stats.errors) = 2

====
